---- MODULE Spec2Model ----
(***************************************************************************)
(* A model of py_near's transaction pipeline (Account.sign_and_submit_tx,  *)
(* src/src/py_near/account.py) and of the multi-endpoint RPC transport     *)
(* (JsonProvider.call_rpc_request, src/src/py_near/providers.py), of       *)
(* json_rpc in single-endpoint mode, of the classification of RPC errors   *)
(* (get_error_from_response, ActionError, parse_error) and of the          *)
(* submission of a signed transaction (send_tx_included, send_tx_and_wait, *)
(* wait_for_trx), of the endpoint health check (_check_available_rpcs),    *)
(* of Account.create_account, Account.stake and                            *)
(* Account.create_delegate_action, of TransactionResult.logs               *)
(* (src/src/py_near/models.py), of calc_trx_hash                           *)
(* (src/src/py_near/transactions.py) and of the intents manager's          *)
(* get_tr_hash_from_intent and IntentBuilder                               *)
(* (src/src/py_near/omni_balance/manager.py).                              *)
(*                                                                         *)
(* Every coroutine runs on one asyncio event loop: the code between two    *)
(* suspending awaits is one atomic step.  An await of asyncio.Queue.get on *)
(* a non-empty queue, and of Queue.put on an unbounded queue, does not     *)
(* suspend, and neither does _update_last_block_hash when the cached hash  *)
(* is fresh.                                                               *)
(***************************************************************************)
EXTENDS Integers, Sequences, FiniteSets, TLC

(* ------------------------------ bounds -------------------------------- *)

\* number of sign_and_submit_tx calls made in a run; task t is the t-th call
\* to start
MaxCalls == 3
\* the clock (utils.timestamp()) when the run starts, and where it stops
StartTime == 100
MaxTime == 150

\* The clock's last value and its step in the runs in which time passes by
\* less than the freshness window.
LastTime == 160
TimeStep == 20

(* ------------------------- program constants -------------------------- *)

\* account.py:141  self._latest_block_hash_ts + 50 > utils.timestamp()
FreshWindow == 50

(* ----------------------------- the setup ------------------------------ *)

Tasks == 1 .. MaxCalls

\* Three Account objects of one process.  The first two were constructed with
\* private key "k1", and the first also holds "k2"; the third was constructed
\* with private_key=None.
Instances == {1, 2, 3}

PrivateKeys == {"k1", "k2"}

\* Account.__init__: self.account_id
AccountId(i) == IF i = 1 THEN "alice" ELSE IF i = 2 THEN "bob" ELSE "carol"

\* Account.__init__: self._signers, in the order of the private_key list
\* (account.py:84-85, 96: an empty list when private_key is None)
Signers(i) == IF i = 1 THEN <<"k1", "k2">> ELSE IF i = 2 THEN <<"k1">> ELSE <<>>

\* The nonce of each (account, key) access key on chain when the run starts.
AccountIds == {AccountId(i) : i \in Instances}
ChainNonce0 == [p \in AccountIds \X PrivateKeys |->
                  IF p = <<"alice", "k1">> THEN 4
                  ELSE IF p = <<"alice", "k2">> THEN 0
                  ELSE 7]

Range(s) == {s[n] : n \in 1 .. Len(s)}

NoKey == "none"
NoResponse == -1

VARIABLES
    \* ---- Account (class- and instance-level state)
    accessKeyNonce,     \* Account._access_key_nonce: ONE dict of the class, by key
    freeSigners,        \* self._free_signers, per instance: a FIFO queue of keys
    latestBlockHash,    \* self._latest_block_hash, per instance (0: not set)
    latestBlockHeight,  \* self._latest_block_height, per instance
    latestBlockHashTs,  \* self._latest_block_hash_ts, per instance
    \* ---- one sign_and_submit_tx call per task
    pc,                 \* where the coroutine is suspended
    self,               \* the Account instance the call is made on (0: none yet)
    checkedAt,          \* utils.timestamp() of the freshness check of the call
    pk,                 \* local pk: the key checked out
    accessKey,          \* the access-key nonce the node answered, not yet read
    txNonce,            \* the nonce signed into the transaction (0: none)
    txBlockHash,        \* the block hash signed into the transaction
    trxHash,            \* local trx_hash: what calc_trx_hash was given
    \* ---- the environment
    chainNonce,         \* on-chain access-key nonce of each (account_id, key)
    now,                \* utils.timestamp()
    \* ---- one JsonProvider.call_rpc_request call
    rpcPc,              \* "idle", "waiting" (in asyncio.wait), "returned", "raised"
    broadcast,          \* argument broadcast
    threshold,          \* argument threshold
    pending,            \* local pending: the endpoints whose request is not done
    responses,          \* local responses
    result,             \* local result; after the call, the value returned
    cancelled,          \* the requests the call cancelled (task.cancel())
    delivered,          \* per outcome, how many endpoint requests ended with it
    \* ---- one JsonProvider.json_rpc call in single-endpoint mode
    jsonPc,             \* "idle", "awaiting" (call_rpc_request), "returned", "raised"
    contacted,          \* the endpoints f(rpc_addr) was awaited on, in order
    answers,            \* what those requests ended with, in order
    error,              \* the exception json_rpc raised
    \* ---- one classification of an error (get_error_from_response, parse_error)
    content,            \* the argument
    classified,         \* what the call gave
    \* ---- the try block of sign_and_submit_tx, per task
    subPc,              \* "idle", "broadcast", "sleep", "poll", "done"
    given,              \* the arguments nowait and included of the call
    included,           \* local included (after line 174)
    requests,           \* the RPC methods requested through json_rpc, in order
    slept,              \* seconds spent in asyncio.sleep
    attempt,            \* the passes of the loop of wait_for_trx begun
    sent,               \* what the broadcast request ended with
    polled,             \* what the latest get_tx request ended with
    outcome,            \* what sign_and_submit_tx returned or raised
    \* ---- the health check of a provider and a request made meanwhile
    availableRpcs,      \* self._available_rpcs
    check,              \* the running _check_available_rpcs call: its locals
    flight,             \* a call_rpc_request call: the list it reads, its requests
    \* ---- a create_account call
    creation,           \* its arguments and those it gives sign_and_submit_tx
    \* ---- a stake call
    staking,            \* its arguments and those it gives sign_and_submit_tx
    \* ---- a create_delegate_action call
    delegate,           \* its locals and the DelegateActionModel it returned
    \* ---- objects of the library's models
    transactionResult,  \* a TransactionResult: its outcomes' logs, the reads
    hashCalls,          \* the calc_trx_hash calls made: arguments and hash
    \* ---- the intents of omni_balance
    settlement,         \* a get_tr_hash_from_intent call: its locals, its polls
    builder             \* an IntentBuilder: its fields, the calls made on it

acctVars == <<accessKeyNonce, freeSigners, latestBlockHash, latestBlockHeight,
              latestBlockHashTs>>
taskVars == <<pc, self, checkedAt, pk, accessKey, txNonce, txBlockHash, trxHash>>
envVars == <<chainNonce, now>>
rpcVars == <<rpcPc, broadcast, threshold, pending, responses, result, cancelled,
            delivered>>
singleVars == <<jsonPc, contacted, answers, error>>
errVars == <<content, classified>>
subVars == <<subPc, given, included, requests, slept, attempt, sent, polled, outcome>>
healthVars == <<availableRpcs, check, flight>>
libVars == <<transactionResult, hashCalls, settlement, builder>>
opVars == <<staking, delegate>>
moreVars == <<healthVars, creation, libVars, opVars>>
coreVars == <<acctVars, taskVars, envVars, rpcVars, singleVars, errVars, subVars,
              opVars>>
provVars == <<singleVars, errVars, subVars, moreVars>>
vars == <<acctVars, taskVars, envVars, rpcVars, provVars>>

(* ---------------------------- Account state --------------------------- *)

\* account.py:99-112: every configured key is put into the queue once
InitFreeSigners(i) == Signers(i)

InitAccount ==
    /\ accessKeyNonce = [k \in PrivateKeys |-> 0]
    /\ freeSigners = [i \in Instances |-> InitFreeSigners(i)]
    /\ latestBlockHash = [i \in Instances |-> 0]
    /\ latestBlockHeight = [i \in Instances |-> 0]
    /\ latestBlockHashTs = [i \in Instances |-> 0]
    /\ pc = [t \in Tasks |-> "idle"]
    /\ self = [t \in Tasks |-> 0]
    /\ checkedAt = [t \in Tasks |-> 0]
    /\ pk = [t \in Tasks |-> NoKey]
    /\ accessKey = [t \in Tasks |-> NoResponse]
    /\ txNonce = [t \in Tasks |-> 0]
    /\ txBlockHash = [t \in Tasks |-> 0]
    /\ trxHash = [t \in Tasks |-> [signer |-> NoKey, nonce |-> 0, block_hash |-> 0]]
    /\ chainNonce = ChainNonce0
    /\ now = StartTime

\* account.py:141
HashIsFresh(i) == latestBlockHashTs[i] + FreshWindow > now

\* account.py:176  pk = await self._free_signers.get()
CheckedOut(q) == Head(q)
AfterGet(q) == Tail(q)

\* A plausible slip: the key is held until the finally clause of line 220.
HeldUntilFinally(q, key) == q

\* account.py:177  await self._free_signers.put(pk)
PutBack(q, key) == Append(q, key)

\* account.py:220  finally: await self._free_signers.put(pk)
Release(q, key) == Append(q, key)

\* account.py:179  if self._access_key_nonce[pk] == 0
Unseeded(key) == accessKeyNonce[key] = 0

\* A plausible slip: the answered nonce is not stored.
LeftUnseeded(cache, key, nonce) == cache

\* account.py:181  self._access_key_nonce[pk] = access_key.nonce
Seeded(cache, key, nonce) == [cache EXCEPT ![key] = nonce]

\* account.py:182  self._access_key_nonce[pk] += 1
Incremented(cache, key) == [cache EXCEPT ![key] = @ + 1]

\* A plausible slip: the hash is computed before the increment of line 182.
NonceBeforeIncrement(cache, key) == cache[key]

\* account.py:189  self._access_key_nonce[pk], read after line 182
NonceHashed(cache, key) == Incremented(cache, key)[key]

\* account.py:182-200: the increment, then the hash is computed and the
\* transaction built and signed, each with self._access_key_nonce[pk] as it
\* is now and with the local block_hash of line 184.
SignTx(t, i, key, cache, hash) ==
    /\ accessKeyNonce' = Incremented(cache, key)
    /\ trxHash' = [trxHash EXCEPT ![t] = [signer |-> key,
                                          nonce |-> NonceHashed(cache, key),
                                          block_hash |-> hash]]
    /\ txNonce' = [txNonce EXCEPT ![t] = Incremented(cache, key)[key]]
    /\ txBlockHash' = [txBlockHash EXCEPT ![t] = hash]
    /\ pc' = [pc EXCEPT ![t] = "send"]

\* account.py:174-200, run without suspension up to the next network await:
\* the key is checked out and put back, then either the access-key query is
\* awaited (cache unseeded) or the nonce is reserved and the broadcast awaited.
Reserve(t, i, hash) ==
    /\ freeSigners[i] # <<>>
    /\ LET key == CheckedOut(freeSigners[i]) IN
        /\ freeSigners' = [freeSigners EXCEPT ![i] = PutBack(AfterGet(@), key)]
        /\ pk' = [pk EXCEPT ![t] = key]
        /\ IF Unseeded(key)
             THEN /\ pc' = [pc EXCEPT ![t] = "access_key"]
                  /\ UNCHANGED <<accessKeyNonce, txNonce, txBlockHash, trxHash>>
             ELSE SignTx(t, i, key, accessKeyNonce, hash)

\* A plausible slip: the check of line 171 is left out.
AnyAccount(i) == TRUE

\* account.py:171  if not self._signers: raise ValueError
HasSigners(i) == Signers(i) # <<>>

\* account.py:151-173: the call starts; with a fresh block hash
\* _update_last_block_hash returns at once, else the status request is awaited.
Call(t, i) ==
    /\ pc[t] = "idle"
    /\ \A u \in Tasks : u < t => pc[u] # "idle"
    /\ HasSigners(i)
    /\ self' = [self EXCEPT ![t] = i]
    /\ checkedAt' = [checkedAt EXCEPT ![t] = now]
    /\ IF HashIsFresh(i)
         THEN Reserve(t, i, latestBlockHash[i])
         ELSE /\ pc' = [pc EXCEPT ![t] = "status1"]
              /\ UNCHANGED <<accessKeyNonce, freeSigners, pk, txNonce, txBlockHash,
                             trxHash>>
    /\ UNCHANGED <<latestBlockHash, latestBlockHeight, latestBlockHashTs,
                   accessKey, envVars, rpcVars, provVars>>

\* account.py:171-172: the call is made on an Account without signers and
\* raises ValueError at once; nothing else of the body runs.
CallWithoutKey(t, i) ==
    /\ pc[t] = "idle"
    /\ \A u \in Tasks : u < t => pc[u] # "idle"
    /\ ~HasSigners(i)
    /\ self' = [self EXCEPT ![t] = i]
    /\ pc' = [pc EXCEPT ![t] = "raised"]
    /\ outcome' = [outcome EXCEPT ![t] = "ValueError"]
    /\ UNCHANGED <<acctVars, checkedAt, pk, accessKey, txNonce, txBlockHash, trxHash,
                   envVars, rpcVars, singleVars, errVars, subPc, given, included,
                   requests, slept, attempt, sent, polled, moreVars>>

\* account.py:143-145: the first get_status answers; the hash is stored and the
\* second request awaited.  The head block of the chain is the clock's value.
StatusHash(t) ==
    /\ pc[t] = "status1"
    /\ latestBlockHash' = [latestBlockHash EXCEPT ![self[t]] = now]
    /\ pc' = [pc EXCEPT ![t] = "status2"]
    /\ UNCHANGED <<accessKeyNonce, freeSigners, latestBlockHeight,
                   latestBlockHashTs, self, checkedAt, pk, accessKey, txNonce, txBlockHash,
                   trxHash,
                   envVars, rpcVars, provVars>>

\* account.py:146-149, then 174-200: the second get_status answers, height and
\* fetch time are stored, and the call goes on to the reservation.
StatusHeight(t) ==
    /\ pc[t] = "status2"
    /\ latestBlockHeight' = [latestBlockHeight EXCEPT ![self[t]] = now]
    /\ latestBlockHashTs' = [latestBlockHashTs EXCEPT ![self[t]] = now]
    /\ Reserve(t, self[t], latestBlockHash[self[t]])
    /\ UNCHANGED <<latestBlockHash, self, checkedAt, accessKey, envVars, rpcVars, provVars>>

\* account.py:143,146: a get_status request raises; the call ends before any
\* key is checked out.
StatusRaises(t) ==
    /\ pc[t] \in {"status1", "status2"}
    /\ pc' = [pc EXCEPT ![t] = "raised"]
    /\ UNCHANGED <<acctVars, self, checkedAt, pk, accessKey, txNonce, txBlockHash,
                   trxHash,
                   envVars, rpcVars, provVars>>

\* account.py:263: the node answers the view_access_key query with the nonce
\* the chain holds at that moment; the coroutine has not been resumed yet.
AccessKeyAnswered(t) ==
    /\ pc[t] = "access_key"
    /\ accessKey[t] = NoResponse
    /\ accessKey' = [accessKey EXCEPT ![t] = chainNonce[<<AccountId(self[t]), pk[t]>>]]
    /\ UNCHANGED <<acctVars, pc, self, checkedAt, pk, txNonce, txBlockHash, trxHash,
                   envVars, rpcVars, provVars>>

\* account.py:180-200: get_access_key returns; the cache entry is overwritten
\* with the answered nonce, incremented, and the transaction signed.
AccessKeyResume(t) ==
    /\ pc[t] = "access_key"
    /\ accessKey[t] # NoResponse
    /\ SignTx(t, self[t], pk[t],
              Seeded(accessKeyNonce, pk[t], accessKey[t]),
              latestBlockHash[self[t]])
    /\ UNCHANGED <<freeSigners, latestBlockHash, latestBlockHeight,
                   latestBlockHashTs, self, checkedAt, pk, accessKey, envVars, rpcVars, provVars>>

\* account.py:263-267: the query raises (RPC error, or "error" in the answer);
\* line 180 is outside the try block, so no finally clause runs.
AccessKeyRaises(t) ==
    /\ pc[t] = "access_key"
    /\ accessKey[t] = NoResponse
    /\ pc' = [pc EXCEPT ![t] = "raised"]
    /\ UNCHANGED <<acctVars, self, checkedAt, pk, accessKey, txNonce, txBlockHash,
                   trxHash,
                   envVars, rpcVars, provVars>>

\* The chain accepts a transaction whose nonce is above the access key's, and
\* the access key's nonce becomes the transaction's.
Accepts(t) == txNonce[t] > chainNonce[<<AccountId(self[t]), pk[t]>>]
Landed(t) == [chainNonce EXCEPT ![<<AccountId(self[t]), pk[t]>>] = txNonce[t]]

\* account.py:202-212, 219-220: the broadcast step ends without an error
\* reaching the caller (the result is returned, or, with included set, the
\* hash, which line 209 also returns after a timeout or a swallowed rejection);
\* the finally clause puts the key into the queue.
SendReturns(t) ==
    /\ pc[t] = "send"
    /\ \/ Accepts(t) /\ chainNonce' = Landed(t)
       \/ UNCHANGED chainNonce
    /\ pc' = [pc EXCEPT ![t] = "returned"]
    /\ freeSigners' = [freeSigners EXCEPT ![self[t]] = Release(@, pk[t])]
    /\ UNCHANGED <<accessKeyNonce, latestBlockHash, latestBlockHeight,
                   latestBlockHashTs, self, checkedAt, pk, accessKey, txNonce, txBlockHash,
                   trxHash,
                   now, rpcVars, provVars>>

\* account.py:213-220: the broadcast raises (rejected, transport error or a
\* timeout, after which the transaction may still have landed); the error is
\* re-raised and the finally clause puts the key into the queue.
SendRaises(t) ==
    /\ pc[t] = "send"
    /\ \/ UNCHANGED chainNonce
       \/ Accepts(t) /\ chainNonce' = Landed(t)
    /\ pc' = [pc EXCEPT ![t] = "raised"]
    /\ freeSigners' = [freeSigners EXCEPT ![self[t]] = Release(@, pk[t])]
    /\ UNCHANGED <<accessKeyNonce, latestBlockHash, latestBlockHeight,
                   latestBlockHashTs, self, checkedAt, pk, accessKey, txNonce, txBlockHash,
                   trxHash,
                   now, rpcVars, provVars>>

\* Time passes.
Tick ==
    /\ now + FreshWindow <= MaxTime
    /\ now' = now + FreshWindow
    /\ UNCHANGED <<acctVars, taskVars, chainNonce, rpcVars, provVars>>

\* Time passes, by steps shorter than the freshness window, while calls are
\* suspended in their requests or between two calls.
Elapse ==
    /\ now + TimeStep <= LastTime
    /\ now' = now + TimeStep
    /\ UNCHANGED <<acctVars, taskVars, chainNonce, rpcVars, provVars>>

\* sign_and_submit_tx of the Account objects, the clock standing still
Next ==
    \/ \E t \in Tasks, i \in Instances : Call(t, i)
    \/ \E t \in Tasks : StatusHash(t)
    \/ \E t \in Tasks : StatusHeight(t)
    \/ \E t \in Tasks : StatusRaises(t)
    \/ \E t \in Tasks : AccessKeyAnswered(t)
    \/ \E t \in Tasks : AccessKeyResume(t)
    \/ \E t \in Tasks : AccessKeyRaises(t)
    \/ \E t \in Tasks : SendReturns(t)
    \/ \E t \in Tasks : SendRaises(t)

(* ------------------- JsonProvider.call_rpc_request -------------------- *)

\* number of configured endpoints (len(self._rpc_addresses))
NEndpoints == 5

\* providers.py:69-74  self._rpc_addresses
RpcAddresses == 1 .. NEndpoints

\* providers.py:75  self._available_rpcs = self._rpc_addresses.copy()
AvailableRpcs == RpcAddresses

\* What a request f(rpc_addr) ends with: a JSON body ("A" and "B" have no
\* "error" member, "E" has one), or an exception ("exc").
Bodies == {"A", "B", "E"}
Outcomes == Bodies \cup {"exc"}
None == "None"

\* providers.py:246, 273  "error" in result
HasError(body) == body = "E"

\* providers.py:252  hash(json.dumps(x)): equal bodies give equal hashes, and
\* the bodies of the model are taken to have no hash collision.
HashOfDumps(body) ==
    CASE body = "A" -> 3
      [] body = "B" -> 5
      [] body = "E" -> 7

CountOf(array, x) == Cardinality({n \in 1 .. Len(array) : array[n] = x})

\* A plausible slip: the first element instead of the most common one.
FirstElement(array) == array[1]

\* providers.py:172-184  Counter(array).most_common(1)[0][0]: the element with
\* the highest count; among equals, the one that occurs first in the array.
MostFrequentByHash(array) ==
    LET n == CHOOSE n \in 1 .. Len(array) :
                 /\ \A m \in 1 .. Len(array) :
                        CountOf(array, array[m]) <= CountOf(array, array[n])
                 /\ \A m \in 1 .. (n - 1) :
                        CountOf(array, array[m]) < CountOf(array, array[n])
    IN  array[n]

\* providers.py:252-258
CorrectResponses(resp) ==
    LET array == [n \in 1 .. Len(resp) |-> HashOfDumps(resp[n])]
        most_frequent_element == MostFrequentByHash(array)
    IN  SelectSeq(resp, LAMBDA x : HashOfDumps(x) = most_frequent_element)

\* A plausible slip: "threshold and threshold <= 1".
ThresholdOnly(th) == th # 0 /\ th <= 1

\* providers.py:246  not threshold or threshold <= 1
FirstWins(th) == th = 0 \/ th <= 1

\* providers.py:259  len(correct_responses) >= threshold
Reached(n, th) == n >= th

\* A plausible slip: the loop ends with one request still pending.
StopsBeforeLast(left) == Cardinality(left) > 1

\* providers.py:239  while pending and len(pending)
LoopContinues(left) == left # {}

\* providers.py:243-250: the done tasks are read in turn; a body without error
\* is returned at once when no agreement is asked for, an exception is logged,
\* every other body is appended to responses.
RECURSIVE ProcessDone(_, _, _, _)
ProcessDone(outs, th, resp, res) ==
    IF outs = <<>>
      THEN [returned |-> FALSE, responses |-> resp, result |-> res]
      ELSE LET o == Head(outs) IN
           IF o = "exc"
             THEN ProcessDone(Tail(outs), th, resp, res)
             ELSE IF ~HasError(o) /\ FirstWins(th)
               THEN [returned |-> TRUE, responses |-> resp, result |-> o]
               ELSE ProcessDone(Tail(outs), th, Append(resp, o), o)

\* The number of endpoint requests that have completed.
Completed == delivered["A"] + delivered["B"] + delivered["E"] + delivered["exc"]

\* The outcomes of a batch of completed requests, added to the tally.
Tally(outs) ==
    [o \in Outcomes |-> delivered[o] + CountOf(outs, o)]

InitRpc ==
    /\ rpcPc = "idle"
    /\ broadcast = FALSE
    /\ threshold = 0
    /\ pending = {}
    /\ responses = <<>>
    /\ result = None
    /\ cancelled = {}
    /\ delivered = [o \in Outcomes |-> 0]

\* providers.py:263-267: after the loop
AfterLoop(th, res) ==
    IF th # 0 /\ th > 0
      THEN /\ rpcPc' = "raised"        \* RpcEmptyResponse("Threshold not reached")
           /\ result' = res
      ELSE /\ rpcPc' = "returned"
           /\ result' = res

\* providers.py:202-237: the fan-out branch of call_rpc_request is entered; one
\* request per available endpoint is started.
RpcCall(b, th) ==
    /\ rpcPc = "idle"
    /\ b \/ th # 0
    /\ broadcast' = b
    /\ threshold' = th
    /\ pending' = AvailableRpcs
    /\ responses' = <<>>
    /\ IF LoopContinues(AvailableRpcs)
         THEN rpcPc' = "waiting" /\ result' = None
         ELSE AfterLoop(th, None)
    /\ UNCHANGED <<cancelled, delivered, acctVars, taskVars, envVars, provVars>>

\* providers.py:240  asyncio.wait(pending, return_when=FIRST_COMPLETED) returns
\* a non-empty set of the pending requests.  A request's outcome is drawn when
\* it completes, so the endpoints are interchangeable and the done set is taken
\* to be the k lowest-numbered pending requests, for any k.
DoneSets(pend) ==
    {{e \in pend : Cardinality({d \in pend : d <= e}) <= k} :
        k \in 1 .. Cardinality(pend)}

\* providers.py:239-267: asyncio.wait returns the requests done by now, which
\* are read in any order; one pass of the loop body, and the code after the
\* loop when nothing is left pending.
WaitDone ==
    /\ rpcPc = "waiting"
    /\ \E done \in DoneSets(pending) :
       \E outs \in [1 .. Cardinality(done) -> Outcomes] :
         LET after == ProcessDone(outs, threshold, responses, result)
             left == pending \ done
             correct_responses == CorrectResponses(after.responses)
         IN
         /\ delivered' = Tally(outs)
         /\ responses' = after.responses
         /\ IF after.returned
              THEN /\ rpcPc' = "returned"
                   /\ result' = after.result
                   /\ pending' = left
                   /\ UNCHANGED cancelled
              ELSE IF /\ after.responses # <<>>
                      /\ threshold # 0
                      /\ Reached(Len(correct_responses), threshold)
                THEN /\ rpcPc' = "returned"
                     /\ result' = correct_responses[1]
                     /\ pending' = left
                     /\ cancelled' = left
                ELSE IF LoopContinues(left)
                  THEN /\ rpcPc' = "waiting"
                       /\ result' = after.result
                       /\ pending' = left
                       /\ UNCHANGED cancelled
                  ELSE /\ AfterLoop(threshold, after.result)
                       /\ pending' = left
                       /\ UNCHANGED cancelled
    /\ UNCHANGED <<broadcast, threshold, acctVars, taskVars, envVars, provVars>>

\* one call of call_rpc_request with broadcast or threshold set
NextRpc ==
    \/ \E b \in BOOLEAN, th \in 0 .. NEndpoints : RpcCall(b, th)
    \/ WaitDone

(* ------------------- classification of RPC errors --------------------- *)

\* longest chain of nested single-key maps in an error body of the model
MaxDepth == 3

\* exceptions/provider.py:304-351  the keys of ERROR_CODE_TO_EXCEPTION
ErrorCodes ==
    {"AccessKeyError", "AccountAlreadyExists", "AccountDoesNotExist",
     "AccountError", "ActionError", "ActionErrorKind", "ActionsValidation",
     "ActorNoPermission", "AddKeyAlreadyExists", "BlockError", "CostOverflow",
     "CreateAccountNotAllowed", "DeleteAccountHasRent", "DeleteAccountStaking",
     "DeleteKeyDoesNotExist", "Expired", "FunctionCallError", "InternalError",
     "InvalidAccessKeyError", "InvalidAccount", "InvalidChain", "InvalidNonce",
     "InvalidReceiverId", "InvalidSignature", "InvalidSignerId",
     "InvalidTransactionError", "InvalidTxError", "JsonProviderError",
     "NewReceiptValidationError", "NoContractCodeError", "NoSyncedBlocksError",
     "NoSyncedYetError", "NotEnoughBalance", "LackBalanceForState",
     "RentUnpaid", "RpcTimeoutError", "SignerDoesNotExist",
     "TooLargeContractStateError", "TransactionError", "TriesToStake",
     "TriesToUnstake", "TxExecutionError", "UnavailableShardError",
     "UnknownAccessKeyError", "UnknownAccount", "UnknownBlockError"}

\* exceptions/provider.py:304-351: the class a code is mapped to; each class
\* has the name of its key, but for the key "RpcTimeoutError".
ErrorCodeToException(key) ==
    IF key = "RpcTimeoutError" THEN "RPCTimeoutError" ELSE key

\* providers.py:31-44  the keys of PROVIDER_CODE_TO_EXCEPTION
ProviderCodes ==
    {"UNKNOWN_BLOCK", "INVALID_ACCOUNT", "UNKNOWN_ACCOUNT", "NO_CONTRACT_CODE",
     "TOO_LARGE_CONTRACT_STATE", "UNAVAILABLE_SHARD", "NO_SYNCED_BLOCKS",
     "INTERNAL_ERROR", "NOT_SYNCED_YET", "INVALID_TRANSACTION", "TIMEOUT_ERROR",
     "UNKNOWN_ACCESS_KEY"}

\* providers.py:31-44, 294  PROVIDER_CODE_TO_EXCEPTION.get(error_code, InternalError)
ProviderCodeToException(code) ==
    CASE code = "UNKNOWN_BLOCK" -> "UnknownBlockError"
      [] code = "INVALID_ACCOUNT" -> "InvalidAccount"
      [] code = "UNKNOWN_ACCOUNT" -> "UnknownAccount"
      [] code = "NO_CONTRACT_CODE" -> "NoContractCodeError"
      [] code = "TOO_LARGE_CONTRACT_STATE" -> "TooLargeContractStateError"
      [] code = "UNAVAILABLE_SHARD" -> "UnavailableShardError"
      [] code = "NO_SYNCED_BLOCKS" -> "NoSyncedBlocksError"
      [] code = "INTERNAL_ERROR" -> "InternalError"
      [] code = "NOT_SYNCED_YET" -> "NoSyncedYetError"
      [] code = "INVALID_TRANSACTION" -> "InvalidTransactionError"
      [] code = "TIMEOUT_ERROR" -> "RPCTimeoutError"
      [] code = "UNKNOWN_ACCESS_KEY" -> "UnknownAccessKeyError"
      [] OTHER -> "InternalError"

\* exceptions/provider.py:123-285: the classes that derive from
\* TxExecutionError and are constructed by its __init__
TxExecutionErrors ==
    {"TxExecutionError", "InvalidTxError", "ActionErrorKind",
     "AccountAlreadyExists", "AccountDoesNotExist", "CreateAccountNotAllowed",
     "ActorNoPermission", "DeleteKeyDoesNotExist", "AddKeyAlreadyExists",
     "DeleteAccountStaking", "DeleteAccountHasRent", "RentUnpaid",
     "TriesToUnstake", "TriesToStake", "FunctionCallError",
     "NewReceiptValidationError", "InvalidNonce", "InvalidAccessKeyError",
     "InvalidSignerId", "SignerDoesNotExist", "InvalidReceiverId",
     "NotEnoughBalance", "LackBalanceForState", "CostOverflow", "InvalidChain",
     "Expired", "ActionsValidation", "InvalidSignature"}

\* exceptions/provider.py:206-220  the keys of _ACTION_ERROR_KINDS
ActionErrorKinds ==
    {"AccountAlreadyExists", "ActorNoPermission", "CreateAccountNotAllowed",
     "AccountDoesNotExist", "DeleteKeyDoesNotExist", "DeleteAccountStaking",
     "AddKeyAlreadyExists", "DeleteAccountHasRent", "RentUnpaid",
     "TriesToUnstake", "TriesToStake", "FunctionCallError", "ActionErrorKind"}

\* exceptions/exceptions.py:206-225  the keys of _ERROR_TYPE_TO_EXCEPTION
ErrorTypes ==
    {"AccountAlreadyExists", "AccountDoesNotExist", "CreateAccountNotAllowed",
     "ActorNoPermission", "DeleteKeyDoesNotExist", "AddKeyAlreadyExists",
     "DeleteAccountStaking", "DeleteAccountHasRent", "RentUnpaid",
     "TriesToUnstake", "TriesToStake", "FunctionCallError", "ExecutionError",
     "NewReceiptValidationError", "DelegateActionExpired",
     "LackBalanceForState", "DelegateActionInvalidNonce",
     "DelegateActionInvalidSignature"}

\* exceptions/exceptions.py:206-225: the class an error type is mapped to
ErrorTypeToException(error_type) ==
    CASE error_type = "AccountAlreadyExists" -> "AccountAlreadyExistsError"
      [] error_type = "AccountDoesNotExist" -> "AccountDoesNotExistError"
      [] error_type = "CreateAccountNotAllowed" -> "CreateAccountNotAllowedError"
      [] error_type = "ActorNoPermission" -> "ActorNoPermissionError"
      [] error_type = "DeleteKeyDoesNotExist" -> "DeleteKeyDoesNotExistError"
      [] error_type = "AddKeyAlreadyExists" -> "AddKeyAlreadyExistsError"
      [] error_type = "DeleteAccountStaking" -> "DeleteAccountStakingError"
      [] error_type = "DeleteAccountHasRent" -> "DeleteAccountHasRentError"
      [] error_type = "RentUnpaid" -> "RentUnpaidError"
      [] error_type = "TriesToUnstake" -> "TriesToUnstakeError"
      [] error_type = "TriesToStake" -> "TriesToStakeError"
      [] OTHER -> error_type

\* The JSON bodies of the model.  A body is a leaf wrapped in a chain of
\* single-key maps: {chain[1]: {chain[2]: ... leaf}}.  The leaves are
\*   "{}"      the empty map
\*   "args"    a map of two argument fields, {"tx_nonce": 5, "ak_nonce": 7}
\*   "text"    a string that is no error code and no JSON document
\*   "Expired" a string that is an error code
\*   "kind=K"  the map {"index": 0, "kind": {K: {}}} of an ActionError
Body(chain, leaf) == [chain |-> chain, leaf |-> leaf]
EmptyDict == Body(<<>>, "{}")
StrLeaves == {"text", "Expired"}
ActionLeaves == {"kind=AccountDoesNotExist", "kind=NewReceiptValidationError"}
Leaves == {"{}", "args"} \cup StrLeaves \cup ActionLeaves

\* The keys of the nested maps: error codes, and a key that is none.
Keys == {"TxExecutionError", "InvalidTxError", "InvalidNonce", "ActionsValidation",
         "ActionError", "UnknownAccount", "AccessKeyNotFound"}

RECURSIVE Chains(_)
Chains(n) ==
    IF n = 0 THEN {<<>>}
    ELSE Chains(n - 1) \cup
         {<<k>> \o c : k \in Keys, c \in {d \in Chains(n - 1) : Len(d) = n - 1}}

Bodies4Error == {Body(c, l) : c \in Chains(MaxDepth), l \in Leaves}

KindOf(leaf) ==
    CASE leaf = "kind=AccountDoesNotExist" -> "AccountDoesNotExist"
      [] leaf = "kind=NewReceiptValidationError" -> "NewReceiptValidationError"
      [] OTHER -> None

\* isinstance(body, str), isinstance(body, dict), len(body), list(body.items())[0]
IsStr(body) == body.chain = <<>> /\ body.leaf \in StrLeaves
IsDict(body) == ~IsStr(body)
Size(body) ==
    IF body.chain # <<>> THEN 1 ELSE IF body.leaf = "{}" THEN 0 ELSE 2
FirstKey(body) == body.chain[1]
Inner(body) == Body(Tail(body.chain), body.leaf)

\* data.items(): the keys at the top of a map
TopKeys(body) ==
    IF body.chain # <<>> THEN {body.chain[1]}
    ELSE CASE body.leaf = "args" -> {"tx_nonce", "ak_nonce"}
           [] body.leaf \in ActionLeaves -> {"index", "kind"}
           [] OTHER -> {}

\* What a constructor call gives: an exception object of class type, with the
\* attributes attrs set from the body, or the exception it raised instead.
Made(cls, attrs, kind, body) ==
    [raised |-> None, type |-> cls, attrs |-> attrs, kind |-> kind, body |-> body]
Raise(exc, body) ==
    [raised |-> exc, type |-> None, attrs |-> {}, kind |-> None, body |-> body]
NoError == Made(None, {}, None, EmptyDict)

\* exceptions/provider.py:11-12  JsonProviderError.__init__: the positional
\* arguments are kept in args only, no attribute is set
JsonProviderErrorInit(cls, body) == Made(cls, {}, None, body)

\* exceptions/provider.py:124-134  TxExecutionError.__init__: a string is
\* parsed as JSON, and InvalidTransactionError raised when it is none; the
\* items of the map become attributes
TxExecutionErrorInit(cls, body) ==
    IF IsStr(body) THEN Raise("InvalidTransactionError", body)
    ELSE Made(cls, TopKeys(body), None, body)

\* exceptions/provider.py:227-233  ActionError.__init__
ActionErrorInit(body) ==
    IF IsStr(body) THEN Raise("JSONDecodeError", body)
    ELSE IF "kind" \notin TopKeys(body) THEN Raise("KeyError", body)
    ELSE IF KindOf(body.leaf) \notin ActionErrorKinds THEN Raise("KeyError", body)
    ELSE Made("ActionError", {"index", "kind"}, KindOf(body.leaf), body)

\* cls(body, error_json=...)
Construct(cls, body) ==
    IF cls = "ActionError" THEN ActionErrorInit(body)
    ELSE IF cls \in TxExecutionErrors THEN TxExecutionErrorInit(cls, body)
    ELSE JsonProviderErrorInit(cls, body)

\* providers.py:297-312: the while loop; an exception raised by a constructor
\* leaves the function
RECURSIVE Unwrap(_, _)
Unwrap(err, body) ==
    IF err.raised # None THEN err
    ELSE IF ~IsDict(body) THEN err
    ELSE IF Size(body) = 0 THEN err
    ELSE IF Size(body) = 1 /\ FirstKey(body) \in ErrorCodes
      THEN IF IsStr(Inner(body)) /\ Inner(body).leaf \in ErrorCodes
             THEN Unwrap(Construct(ErrorCodeToException(Inner(body).leaf), EmptyDict),
                         EmptyDict)
             ELSE Unwrap(Construct(ErrorCodeToException(FirstKey(body)), Inner(body)),
                         Inner(body))
      ELSE err

\* providers.py:280-312
GetErrorFromResponse(c) ==
    IF ~c.hasError THEN NoError
    ELSE Unwrap(Construct(ProviderCodeToException(c.name), c.data), c.data)

\* exceptions/exceptions.py:228-229  the arguments are those the node sends
\* with the error type, which the constructor of its class accepts
ParseError(error_type, args) ==
    IF error_type \notin ErrorTypes THEN Raise("KeyError", args)
    ELSE Made(ErrorTypeToException(error_type), TopKeys(args), None, args)

\* The cause names and error types the calls of the model are given.
CauseNames == {"INVALID_TRANSACTION", "UNKNOWN_ACCOUNT", "NEW_CAUSE", ""}
ErrorTypesGiven == ErrorTypes \cup {"InsufficientStake"}

Content(fn, hasError, name, data) ==
    [fn |-> fn, hasError |-> hasError, name |-> name, data |-> data]

InitErr ==
    /\ content = Content(None, FALSE, "", EmptyDict)
    /\ classified = NoError

\* one call of get_error_from_response(content)
Classify ==
    /\ content.fn = None
    /\ \E hasError \in BOOLEAN, name \in CauseNames, data \in Bodies4Error :
         /\ hasError \/ (name = "" /\ data = EmptyDict)
         /\ content' = Content("get_error_from_response", hasError, name, data)
         /\ classified' = GetErrorFromResponse(content')
    /\ UNCHANGED <<acctVars, taskVars, envVars, rpcVars, singleVars, subVars,
                   moreVars>>

\* one call of parse_error(error_type, args), models.py:61-66
Parse ==
    /\ content.fn = None
    /\ \E error_type \in ErrorTypesGiven, args \in {EmptyDict, Body(<<>>, "args")} :
         /\ content' = Content("parse_error", TRUE, error_type, args)
         /\ classified' = ParseError(error_type, args)
    /\ UNCHANGED <<acctVars, taskVars, envVars, rpcVars, singleVars, subVars,
                   moreVars>>

NextErr == Classify \/ Parse

(* ------------ JsonProvider.json_rpc, single-endpoint mode ------------- *)

\* providers.py:270  for rpc_addr in self._available_rpcs: the list order
AvailableRpcList == [n \in 1 .. Cardinality(AvailableRpcs) |-> n]

\* The body "E" is the envelope {"error": {"cause": {"name": "UNKNOWN_ACCOUNT"},
\* "data": <a message>}}; "A" and "B" have no "error" member.
Envelope(body) ==
    IF HasError(body)
      THEN Content("get_error_from_response", TRUE, "UNKNOWN_ACCOUNT", Body(<<>>, "text"))
      ELSE Content("get_error_from_response", FALSE, "", EmptyDict)

InitSingle ==
    /\ jsonPc = "idle"
    /\ contacted = <<>>
    /\ answers = <<>>
    /\ error = None

\* providers.py:336-340: json_rpc once call_rpc_request has returned c
JsonRpcEnds(c) ==
    IF c = None
      THEN jsonPc' = "raised" /\ error' = "RpcEmptyResponse"
      ELSE LET err == GetErrorFromResponse(Envelope(c)) IN
           IF err.raised # None
             THEN jsonPc' = "raised" /\ error' = err.raised
             ELSE IF err.type # None
               THEN jsonPc' = "raised" /\ error' = err.type
               ELSE jsonPc' = "returned" /\ error' = None

\* A plausible slip: the loop goes on after a body without error.
LastWins(res) == FALSE

\* providers.py:273  if "error" not in res: return res
ReturnsAtOnce(res) == ~HasError(res)

\* providers.py:333-335, 202-204, 268-272: json_rpc(method, params) with
\* broadcast=False and no threshold; call_rpc_request enters the else branch
\* and awaits the request to the first endpoint of the list.
JsonRpc ==
    /\ jsonPc = "idle"
    /\ rpcPc = "idle"
    /\ broadcast' = FALSE
    /\ threshold' = 0
    /\ answers' = <<>>
    /\ result' = None
    /\ IF Len(AvailableRpcList) = 0
         THEN rpcPc' = "returned" /\ contacted' = <<>> /\ JsonRpcEnds(None)
         ELSE /\ rpcPc' = "asking"
              /\ contacted' = <<AvailableRpcList[1]>>
              /\ jsonPc' = "awaiting"
              /\ error' = None
    /\ UNCHANGED <<pending, responses, cancelled, delivered, acctVars, taskVars,
                   envVars, errVars, subVars, moreVars>>

\* providers.py:270-278, 336-340: the awaited request ends with o; an
\* exception is logged and the loop goes on with res as it was, a body is
\* stored in res and returned when it has no error; else the next endpoint of
\* the list is asked, and after the last one res is returned.  json_rpc then
\* raises or returns.
Answer(o) ==
    /\ rpcPc = "asking"
    /\ answers' = Append(answers, o)
    /\ delivered' = Tally(<<o>>)
    /\ LET res == IF o = "exc" THEN result ELSE o
           n == Len(contacted)
       IN  /\ result' = res
           /\ IF o # "exc" /\ ReturnsAtOnce(res)
                THEN rpcPc' = "returned" /\ UNCHANGED contacted /\ JsonRpcEnds(res)
                ELSE IF n < Len(AvailableRpcList)
                  THEN /\ rpcPc' = "asking"
                       /\ contacted' = Append(contacted, AvailableRpcList[n + 1])
                       /\ UNCHANGED <<jsonPc, error>>
                  ELSE rpcPc' = "returned" /\ UNCHANGED contacted /\ JsonRpcEnds(res)
    /\ UNCHANGED <<broadcast, threshold, pending, responses, cancelled, acctVars,
                   taskVars, envVars, errVars, subVars, moreVars>>

\* one json_rpc call in single-endpoint mode
NextSingle ==
    \/ JsonRpc
    \/ \E o \in Outcomes : Answer(o)

(* --- the try block of sign_and_submit_tx and the provider calls in it -- *)

\* number of sign_and_submit_tx calls made while a submission is followed
MaxSubmits == 2

SubmitTasks == 1 .. MaxSubmits

\* providers.py:387  attempts: int = 6
Attempts == 6

\* providers.py:403  await asyncio.sleep(5)
PollDelay == 5

\* What json_rpc gives for the broadcast request: the result, with a status
\* of success ("ok") or with a status holding "Failure" (the transaction was
\* executed and an action of it failed), or an exception, of a class deriving
\* from JsonProviderError or not (RpcEmptyResponse).
SendOutcomes == {"ok", "Failure", "RPCTimeoutError", "InvalidNonce",
                 "InvalidTransactionError", "RpcEmptyResponse"}

\* providers.py:337-340: json_rpc found no error and returned content["result"]
IsResult(o) == o \in {"ok", "Failure"}

\* What get_tx gives: the transaction ("ok") or an exception.
PollOutcomes == {"ok", "InternalError", "RPCTimeoutError"}

\* providers.py:377-381, 436-440: the method of the broadcast request
BroadcastMethod(incl) == IF incl THEN "send_tx" ELSE "broadcast_tx_commit"

\* A plausible slip: the fallback sends the transaction again.
Rebroadcast == "broadcast_tx_commit"

\* providers.py:405, 639-641: the method of a poll, get_tx
PollMethod == "tx"

\* A plausible slip: a timeout of send_tx_included is raised to the caller.
TimeoutRaised(o) == IF IsResult(o) \/ o = "InvalidNonce" THEN "hash" ELSE o

\* providers.py:376-384, account.py:204-209: what sign_and_submit_tx gives in
\* included mode when the send_tx request ended with o.  send_tx_included
\* returns the result, or None after InvalidNonce; RPCTimeoutError is caught
\* by sign_and_submit_tx; line 209 returns the hash in the three cases.
IncludedGives(o) ==
    IF IsResult(o) \/ o \in {"InvalidNonce", "RPCTimeoutError"} THEN "hash" ELSE o

\* A plausible slip: the timeout is raised without polling.
NoFallback(o, receiver_id, trx_hash) == FALSE

\* providers.py:442-443  except RPCTimeoutError, if receiver_id and trx_hash
FallsBack(o, receiver_id, trx_hash) ==
    o = "RPCTimeoutError" /\ receiver_id /\ trx_hash

\* A plausible slip: one pass more than attempts.
OneMorePoll(n) == n <= Attempts

\* providers.py:402  for _ in range(attempts): another pass after n passes
MorePolls(n) == n < Attempts

InitSubmit ==
    /\ subPc = [t \in Tasks |-> "idle"]
    /\ given = [t \in Tasks |-> [nowait |-> FALSE, included |-> FALSE]]
    /\ included = [t \in Tasks |-> FALSE]
    /\ requests = [t \in Tasks |-> <<>>]
    /\ slept = [t \in Tasks |-> 0]
    /\ attempt = [t \in Tasks |-> 0]
    /\ sent = [t \in Tasks |-> None]
    /\ polled = [t \in Tasks |-> None]
    /\ outcome = [t \in Tasks |-> None]

\* A plausible slip: the legacy flag is not folded into included.
IncludedAlone(nw, incl) == incl

\* account.py:174  included = included or nowait
IncludedOrNowait(nw, incl) == incl \/ nw

\* account.py:174, 202-211: the try block is entered and the broadcast request
\* made, send_tx with included set and broadcast_tx_commit without.  The flags
\* are arguments of the call that nothing reads before line 174, and line 174
\* changes a local only.  The step follows the signing without suspension; it
\* changes this call's locals only.
SubmitStarts(t, nw, incl) ==
    /\ pc[t] = "send"
    /\ subPc[t] = "idle"
    /\ given' = [given EXCEPT ![t] = [nowait |-> nw, included |-> incl]]
    /\ included' = [included EXCEPT ![t] = IncludedOrNowait(nw, incl)]
    /\ requests' = [requests EXCEPT ![t] =
                        Append(@, BroadcastMethod(IncludedOrNowait(nw, incl)))]
    /\ subPc' = [subPc EXCEPT ![t] = "broadcast"]
    /\ UNCHANGED <<acctVars, taskVars, envVars, rpcVars, singleVars, errVars,
                   slept, attempt, sent, polled, outcome, moreVars>>

\* account.py:209-220: the call ends, returning the hash or the result, or
\* raising the exception v; the finally clause puts the key into the queue.
Ends(t, v) ==
    /\ outcome' = [outcome EXCEPT ![t] = v]
    /\ subPc' = [subPc EXCEPT ![t] = "done"]
    /\ pc' = [pc EXCEPT ![t] = IF v \in {"hash", "result"} THEN "returned" ELSE "raised"]
    /\ freeSigners' = [freeSigners EXCEPT ![self[t]] = Release(@, pk[t])]

\* providers.py:376-384, 435-445, 402-403, account.py:203-220: the broadcast
\* request ends with o.  The node answers ok when it took the transaction and
\* InvalidNonce when the nonce is not above the key's; after any other
\* exception the transaction may have landed or not.
BroadcastAnswers(t, o) ==
    /\ subPc[t] = "broadcast"
    /\ sent' = [sent EXCEPT ![t] = o]
    /\ \/ IsResult(o) /\ Accepts(t) /\ chainNonce' = Landed(t)
       \/ o = "InvalidNonce" /\ ~Accepts(t) /\ UNCHANGED chainNonce
       \/ ~IsResult(o) /\ o # "InvalidNonce" /\ Accepts(t) /\ chainNonce' = Landed(t)
       \/ ~IsResult(o) /\ o # "InvalidNonce" /\ UNCHANGED chainNonce
    /\ IF included[t]
         THEN Ends(t, IncludedGives(o)) /\ UNCHANGED attempt
         ELSE IF IsResult(o)
           THEN Ends(t, "result") /\ UNCHANGED attempt
           ELSE IF FallsBack(o, TRUE, TRUE)
             THEN /\ subPc' = [subPc EXCEPT ![t] = "sleep"]
                  /\ attempt' = [attempt EXCEPT ![t] = 1]
                  /\ UNCHANGED <<outcome, pc, freeSigners>>
             ELSE Ends(t, o) /\ UNCHANGED attempt
    /\ UNCHANGED <<accessKeyNonce, latestBlockHash, latestBlockHeight,
                   latestBlockHashTs, self, checkedAt, pk, accessKey, txNonce, txBlockHash,
                   trxHash,
                   now, rpcVars, singleVars, errVars, given, included, requests,
                   slept, polled, moreVars>>

\* providers.py:403-405: the sleep ends and the get_tx request is made
SleepDone(t) ==
    /\ subPc[t] = "sleep"
    /\ slept' = [slept EXCEPT ![t] = @ + PollDelay]
    /\ requests' = [requests EXCEPT ![t] = Append(@, PollMethod)]
    /\ subPc' = [subPc EXCEPT ![t] = "poll"]
    /\ UNCHANGED <<acctVars, taskVars, envVars, rpcVars, singleVars, errVars,
                   given, included, attempt, sent, polled, outcome, moreVars>>

\* providers.py:402-413, account.py:210-220: the get_tx request ends with o;
\* the node knows a transaction of the key with this nonce only when the key's
\* nonce has reached it.  A result is returned; after an exception the loop
\* sleeps again, and after the last pass RPCTimeoutError is raised.
PollAnswers(t, o) ==
    /\ subPc[t] = "poll"
    /\ o = "ok" => chainNonce[<<AccountId(self[t]), pk[t]>>] >= txNonce[t]
    /\ polled' = [polled EXCEPT ![t] = o]
    /\ IF o = "ok"
         THEN Ends(t, "result") /\ UNCHANGED attempt
         ELSE IF MorePolls(attempt[t])
           THEN /\ subPc' = [subPc EXCEPT ![t] = "sleep"]
                /\ attempt' = [attempt EXCEPT ![t] = @ + 1]
                /\ UNCHANGED <<outcome, pc, freeSigners>>
           ELSE Ends(t, "RPCTimeoutError") /\ UNCHANGED attempt
    /\ UNCHANGED <<accessKeyNonce, latestBlockHash, latestBlockHeight,
                   latestBlockHashTs, self, checkedAt, pk, accessKey, txNonce, txBlockHash,
                   trxHash,
                   envVars, rpcVars, singleVars, errVars, given, included,
                   requests, slept, sent, moreVars>>

\* The call whose submission is followed request by request: the first one
\* made.  The broadcast step of the other calls is taken as a whole.
Followed(t) == \A u \in Tasks : u >= t

\* sign_and_submit_tx calls, one of them followed through its submission
NextSubmit ==
    \/ \E t \in SubmitTasks, i \in Instances : Call(t, i)
    \/ \E t \in SubmitTasks : StatusHash(t)
    \/ \E t \in SubmitTasks : StatusHeight(t)
    \/ \E t \in SubmitTasks : StatusRaises(t)
    \/ \E t \in SubmitTasks : AccessKeyAnswered(t)
    \/ \E t \in SubmitTasks : AccessKeyResume(t)
    \/ \E t \in SubmitTasks : AccessKeyRaises(t)
    \/ \E t \in SubmitTasks : ~Followed(t) /\ SendReturns(t)
    \/ \E t \in SubmitTasks : ~Followed(t) /\ SendRaises(t)
    \/ \E t \in SubmitTasks, nw \in BOOLEAN, incl \in BOOLEAN :
          Followed(t) /\ SubmitStarts(t, nw, incl)
    \/ \E t \in SubmitTasks, o \in SendOutcomes : BroadcastAnswers(t, o)
    \/ \E t \in SubmitTasks : SleepDone(t)
    \/ \E t \in SubmitTasks, o \in PollOutcomes : PollAnswers(t, o)

(* ------------- the health check and the requests made meanwhile -------- *)

\* number of configured endpoints of the provider whose health is checked, and
\* number of health checks made in a run
NConfigured == 2
MaxChecks == 2

\* providers.py:69-74  self._rpc_addresses, a list nothing writes afterwards
RpcAddressList == [n \in 1 .. NConfigured |-> n]

\* What the status request of a health check ends with: an exception (the
\* endpoint is unreachable, or its answer is not the JSON expected), a status
\* other than 200, or 200 with sync_info.syncing and the age in seconds of
\* sync_info.latest_block_time.
Reports ==
    {[reached |-> FALSE, status |-> 0, syncing |-> FALSE, diff |-> 0]}
    \cup {[reached |-> TRUE, status |-> 500, syncing |-> FALSE, diff |-> 0]}
    \cup {[reached |-> TRUE, status |-> 200, syncing |-> FALSE, diff |-> d] : d \in {0, 61}}
    \cup {[reached |-> TRUE, status |-> 200, syncing |-> TRUE, diff |-> d] : d \in {60, 61}}

\* A plausible slip: a lag of 60 s is a lag already.
SixtyIsLate(r) == IF r.syncing THEN r.diff >= 60 ELSE FALSE

\* providers.py:147-157  is_syncing
IsSyncing(r) == IF r.syncing THEN r.diff > 60 ELSE FALSE

\* providers.py:121-167: one pass of the loop, what available_rpcs is after it
Checked(available_rpcs, rpc_addr, r) ==
    IF ~r.reached THEN available_rpcs
    ELSE IF r.status = 200
      THEN IF IsSyncing(r) THEN available_rpcs ELSE Append(available_rpcs, rpc_addr)
      ELSE available_rpcs

\* providers.py:75  self._available_rpcs = self._rpc_addresses.copy()
InitHealth ==
    /\ availableRpcs = RpcAddressList
    /\ check = [pc |-> "idle", idx |-> 0, available_rpcs |-> <<>>,
                reports |-> [a \in Range(RpcAddressList) |-> None], before |-> <<>>, done |-> 0]
    /\ flight = [pc |-> "idle", mode |-> None, atStart |-> <<>>,
                 contacted |-> <<>>, startedAt |-> 0, contactedAt |-> 0]

\* providers.py:117-129: _check_available_rpcs is called, by the program or a
\* background task of it; the first status request is posted.
CheckStarts ==
    /\ check.pc = "idle"
    /\ check.done < MaxChecks
    /\ check' = [check EXCEPT !.pc = "running", !.idx = 1, !.available_rpcs = <<>>,
                              !.reports = [a \in Range(RpcAddressList) |-> None],
                              !.before = availableRpcs]
    /\ UNCHANGED <<coreVars, availableRpcs, flight, creation, libVars>>

\* providers.py:130-169: the status request to the endpoint at hand ends with
\* r; the next request is posted or, after the last endpoint, the list built
\* is assigned to self._available_rpcs.
CheckAnswers(r) ==
    /\ check.pc = "running"
    /\ LET rpc_addr == RpcAddressList[check.idx]
           built == Checked(check.available_rpcs, rpc_addr, r)
           last == check.idx = Len(RpcAddressList)
       IN  /\ check' = [check EXCEPT !.reports[rpc_addr] = r,
                                     !.available_rpcs = built,
                                     !.idx = IF last THEN 0 ELSE @ + 1,
                                     !.pc = IF last THEN "idle" ELSE "running",
                                     !.done = IF last THEN @ + 1 ELSE @]
           /\ availableRpcs' = IF last THEN built ELSE availableRpcs
    /\ UNCHANGED <<coreVars, flight, creation, libVars>>

\* A plausible slip: the loop reads self._available_rpcs anew on every pass.
ListNow(fl) == availableRpcs

\* providers.py:270  for rpc_addr in self._available_rpcs: the attribute is
\* read once and the loop goes over that list object, which no code changes
\* (line 169 binds the attribute to a new list).
ListRead(fl) == fl.atStart

\* providers.py:230-233, 268-271: call_rpc_request is called.  With broadcast
\* or threshold a task is made for every endpoint of the list at once; else the
\* first endpoint of the list is asked.  With an empty list the call ends.
RequestStarts(m) ==
    /\ flight.pc = "idle"
    /\ LET list == availableRpcs IN
       flight' = [pc |-> IF list = <<>> THEN "done"
                         ELSE IF m = "broadcast" THEN "waiting" ELSE "asking",
                  mode |-> m,
                  atStart |-> list,
                  contacted |-> IF m = "broadcast" \/ list = <<>> THEN list
                                ELSE <<list[1]>>,
                  startedAt |-> check.done,
                  contactedAt |-> check.done]
    /\ UNCHANGED <<coreVars, availableRpcs, check, creation, libVars>>

\* providers.py:270-278: the endpoint asked answers; without error the call
\* returns, else (error or exception) the next endpoint of the list is asked,
\* and after the last one the call returns.
RequestAnswers(ok) ==
    /\ flight.pc = "asking"
    /\ LET n == Len(flight.contacted)
           list == ListRead(flight)
       IN  IF ok \/ n >= Len(list)
             THEN flight' = [flight EXCEPT !.pc = "done"]
             ELSE flight' = [flight EXCEPT !.contacted = Append(@, list[n + 1]),
                                           !.contactedAt = check.done]
    /\ UNCHANGED <<coreVars, availableRpcs, check, creation, libVars>>

\* providers.py:238-267: the tasks made at line 231-233 end and the call
\* returns or raises; no endpoint is read from the list after line 233.
BroadcastEnds ==
    /\ flight.pc = "waiting"
    /\ flight' = [flight EXCEPT !.pc = "done"]
    /\ UNCHANGED <<coreVars, availableRpcs, check, creation, libVars>>

\* health checks of a provider and one call_rpc_request call
NextHealth ==
    \/ CheckStarts
    \/ \E r \in Reports : CheckAnswers(r)
    \/ \E m \in {"single", "broadcast"} : RequestStarts(m)
    \/ \E ok \in BOOLEAN : RequestAnswers(ok)
    \/ BroadcastEnds

(* ---------------------------- create_account --------------------------- *)

\* base58.b58decode of a string given as the sequence of its digits' values;
\* the bytes are taken as the number they spell
RECURSIVE B58Decode(_)
B58Decode(s) ==
    IF s = <<>> THEN 0
    ELSE B58Decode(SubSeq(s, 1, Len(s) - 1)) * 58 + s[Len(s)]

\* The public_key arguments: bytes, a base58 string, or one with "ed25519:"
\* before it; two keys, 63 (digits 1 5) and 7 (digit 7).
PublicKeyArgs ==
    {[type |-> "bytes", prefix |-> FALSE, value |-> <<b>>] : b \in {63, 7}}
    \cup {[type |-> "str", prefix |-> p, value |-> d] :
             p \in BOOLEAN, d \in {<<1, 5>>, <<7>>}}

\* transactions.py:109-116  create_create_account_action
CreateCreateAccountAction == [action |-> "CreateAccount"]

\* transactions.py:119-134  create_full_access_key_action: a string is
\* decoded after "ed25519:" has been removed from it, bytes are taken as given
CreateFullAccessKeyAction(public_key) ==
    [action |-> "AddKey",
     public_key |-> IF public_key.type = "str" THEN B58Decode(public_key.value)
                    ELSE public_key.value[1],
     nonce |-> 0,
     permission |-> "FullAccess"]

\* transactions.py:189-199  create_transfer_action
CreateTransferAction(amount) == [action |-> "Transfer", deposit |-> amount]

\* A plausible slip: the transfer is placed before the key.
TransferBeforeKey(public_key, initial_balance) ==
    <<CreateCreateAccountAction,
      CreateTransferAction(initial_balance),
      CreateFullAccessKeyAction(public_key)>>

\* account.py:417-421  actions
CreationActions(public_key, initial_balance) ==
    <<CreateCreateAccountAction,
      CreateFullAccessKeyAction(public_key),
      CreateTransferAction(initial_balance)>>

InitCreate ==
    creation = [pc |-> "idle", account_id |-> None, public_key |-> None,
                initial_balance |-> 0, receiver_id |-> None, actions |-> <<>>,
                nowait |-> FALSE]

\* account.py:397-422: create_account is called on an Account; the action list
\* is built and sign_and_submit_tx(account_id, actions, nowait) called, whose
\* steps follow as those of the first call of the run.
CreateAccount(account_id, public_key, initial_balance, nw) ==
    /\ creation.pc = "idle"
    /\ creation' = [pc |-> "called",
                    account_id |-> account_id,
                    public_key |-> public_key,
                    initial_balance |-> initial_balance,
                    receiver_id |-> account_id,
                    actions |-> CreationActions(public_key, initial_balance),
                    nowait |-> nw]
    /\ UNCHANGED <<coreVars, healthVars, libVars>>

\* create_account on an Account whose other calls are not followed
NextCreate ==
    \/ \E a \in {"sub.alice", "sub.bob"}, k \in PublicKeyArgs,
          b \in {0, 10}, nw \in BOOLEAN : CreateAccount(a, k, b, nw)
    \/ /\ creation.pc = "called"
       /\ \/ \E i \in Instances : Call(1, i)
          \/ StatusHash(1)
          \/ StatusHeight(1)
          \/ StatusRaises(1)
          \/ AccessKeyAnswered(1)
          \/ AccessKeyResume(1)
          \/ AccessKeyRaises(1)
          \/ SubmitStarts(1, creation.nowait, FALSE)
          \/ \E o \in SendOutcomes : BroadcastAnswers(1, o)
          \/ SleepDone(1)
          \/ \E o \in PollOutcomes : PollAnswers(1, o)

(* -------------------------------- stake -------------------------------- *)

\* A Python string of decimal digits, as base58 sees it: the digit d is the
\* character of value d - 1 of the alphabet "123456789ABC...", and "0" is not
\* in the alphabet (marked -1).
DecimalString(digits) ==
    [type |-> "str", prefix |-> FALSE,
     value |-> [n \in 1 .. Len(digits) |-> digits[n] - 1]]

\* The amount arguments: "25" and "100" (yoctoNEAR, as strings).
StakeAmounts == {DecimalString(<<2, 5>>), DecimalString(<<1, 0, 0>>)}

\* The public_key arguments: the validator's key as a string.
StakeKeys == {k \in PublicKeyArgs : k.type = "str"}

\* base58.b58decode raises ValueError for a character outside the alphabet
InAlphabet(s) == \A n \in 1 .. Len(s) : s[n] >= 0

\* transactions.py:202-215  create_staking_action(amount, pk): a string pk is
\* decoded after "ed25519:" has been removed from it; StakeAction is given
\* amount and the key in this order.
CreateStakingAction(amount, key) ==
    IF key.type = "str" /\ ~InAlphabet(key.value)
      THEN [raised |-> "ValueError"]
      ELSE [action |-> "Stake",
            stake |-> amount,
            public_key |-> IF key.type = "str" THEN B58Decode(key.value)
                           ELSE key.value[1]]

\* account.py:561  [transactions.create_staking_action(public_key, amount)]
StakeActions(public_key, amount) == <<CreateStakingAction(public_key, amount)>>

InitStake ==
    staking = [pc |-> "idle", account |-> 0, public_key |-> None, amount |-> None,
               receiver_id |-> None, actions |-> <<>>, nowait |-> FALSE]

\* account.py:544-563: stake is called on Account i; the action list is built
\* and, unless building it raised, sign_and_submit_tx(self.account_id,
\* actions, nowait) is called, whose steps follow as those of the first call
\* of the run.
Stake(i, public_key, amount, nw) ==
    /\ staking.pc = "idle"
    /\ LET actions == StakeActions(public_key, amount) IN
        staking' = [pc |-> IF "raised" \in DOMAIN actions[1] THEN "raised"
                           ELSE "called",
                    account |-> i,
                    public_key |-> public_key,
                    amount |-> amount,
                    receiver_id |-> AccountId(i),
                    actions |-> actions,
                    nowait |-> nw]
    /\ UNCHANGED <<acctVars, taskVars, envVars, rpcVars, singleVars, errVars,
                   subVars, healthVars, creation, libVars, delegate>>

\* stake on an Account whose other calls are not followed
NextStake ==
    \/ \E i \in {1, 2}, k \in StakeKeys, a \in StakeAmounts, nw \in BOOLEAN :
          Stake(i, k, a, nw)
    \/ /\ staking.pc = "called"
       /\ \/ Call(1, staking.account)
          \/ StatusHash(1)
          \/ StatusHeight(1)
          \/ StatusRaises(1)
          \/ AccessKeyAnswered(1)
          \/ AccessKeyResume(1)
          \/ AccessKeyRaises(1)
          \/ SubmitStarts(1, staking.nowait, FALSE)
          \/ \E o \in SendOutcomes : BroadcastAnswers(1, o)
          \/ SleepDone(1)
          \/ \E o \in PollOutcomes : PollAnswers(1, o)

(* ------------------------ create_delegate_action ---------------------- *)

\* account.py:636  self._latest_block_height + 1000
HeightMargin == 1000

InitDelegate ==
    delegate = [pc |-> "idle", account |-> 0, key |-> NoKey, access_key |-> NoResponse,
                nonce |-> 0, max_block_height |-> 0]

\* account.py:635  nonce=access_key.nonce + 1
DelegateNonce(access_key) == access_key + 1

\* account.py:631-638: the DelegateActionModel is returned
DelegateReturns(i, access_key, height) ==
    [delegate EXCEPT !.pc = "returned",
                     !.access_key = access_key,
                     !.nonce = DelegateNonce(access_key),
                     !.max_block_height = height + HeightMargin]

\* What a delegate step leaves alone: everything but the call's locals and
\* the block-hash cache of its Account.
DelegateLeaves ==
    UNCHANGED <<accessKeyNonce, freeSigners, taskVars, envVars, rpcVars,
                singleVars, errVars, subVars, healthVars, creation, libVars,
                staking>>

\* account.py:622-626: create_delegate_action is called on Account i, with a
\* public key (named as its private key is) or with None, which stands for
\* the first signer; the access-key query is awaited.  Without signers, or
\* with a key the Account does not hold, lines 623 and 625 raise.
CreateDelegateAction(i, public_key) ==
    /\ delegate.pc = "idle"
    /\ IF public_key = NoKey /\ HasSigners(i)
         THEN delegate' = [delegate EXCEPT !.pc = "access_key", !.account = i,
                                           !.key = Head(Signers(i))]
         ELSE IF public_key \in Range(Signers(i))
           THEN delegate' = [delegate EXCEPT !.pc = "access_key", !.account = i,
                                             !.key = public_key]
           ELSE delegate' = [delegate EXCEPT !.pc = "raised", !.account = i]
    /\ UNCHANGED <<latestBlockHash, latestBlockHeight, latestBlockHashTs>>
    /\ DelegateLeaves

\* account.py:626-638: the node answers the query with the nonce the chain
\* holds; with a fresh block hash _update_last_block_hash returns at once and
\* the model is returned, else the status request is awaited.
DelegateAccessKeyAnswered ==
    /\ delegate.pc = "access_key"
    /\ LET i == delegate.account
           access_key == chainNonce[<<AccountId(i), delegate.key>>]
       IN  IF HashIsFresh(i)
             THEN delegate' = DelegateReturns(i, access_key, latestBlockHeight[i])
             ELSE delegate' = [delegate EXCEPT !.pc = "status1",
                                               !.access_key = access_key]
    /\ UNCHANGED <<latestBlockHash, latestBlockHeight, latestBlockHashTs>>
    /\ DelegateLeaves

\* account.py:143-145: the first get_status answers
DelegateStatusHash ==
    /\ delegate.pc = "status1"
    /\ latestBlockHash' = [latestBlockHash EXCEPT ![delegate.account] = now]
    /\ delegate' = [delegate EXCEPT !.pc = "status2"]
    /\ UNCHANGED <<latestBlockHeight, latestBlockHashTs>>
    /\ DelegateLeaves

\* account.py:146-149, 629-638: the second get_status answers and the model
\* is returned
DelegateStatusHeight ==
    /\ delegate.pc = "status2"
    /\ latestBlockHeight' = [latestBlockHeight EXCEPT ![delegate.account] = now]
    /\ latestBlockHashTs' = [latestBlockHashTs EXCEPT ![delegate.account] = now]
    /\ delegate' = DelegateReturns(delegate.account, delegate.access_key, now)
    /\ UNCHANGED latestBlockHash
    /\ DelegateLeaves

\* account.py:626-627, 263-267: the access-key query or a get_status request
\* raises
DelegateRaises ==
    /\ delegate.pc \in {"access_key", "status1", "status2"}
    /\ delegate' = [delegate EXCEPT !.pc = "raised"]
    /\ UNCHANGED <<latestBlockHash, latestBlockHeight, latestBlockHashTs>>
    /\ DelegateLeaves

\* one create_delegate_action call among sign_and_submit_tx calls
NextDelegate ==
    \/ \E t \in SubmitTasks, i \in Instances : Call(t, i)
    \/ \E t \in SubmitTasks : StatusHash(t)
    \/ \E t \in SubmitTasks : StatusHeight(t)
    \/ \E t \in SubmitTasks : StatusRaises(t)
    \/ \E t \in SubmitTasks : AccessKeyAnswered(t)
    \/ \E t \in SubmitTasks : AccessKeyResume(t)
    \/ \E t \in SubmitTasks : AccessKeyRaises(t)
    \/ \E t \in SubmitTasks : SendReturns(t)
    \/ \E t \in SubmitTasks : SendRaises(t)
    \/ \E i \in Instances, k \in PrivateKeys \cup {NoKey} : CreateDelegateAction(i, k)
    \/ DelegateAccessKeyAnswered
    \/ DelegateStatusHash
    \/ DelegateStatusHeight
    \/ DelegateRaises

(* ------------------------ TransactionResult.logs ----------------------- *)

\* longest list of log lines of one outcome, largest number of receipt
\* outcomes, and number of times the accessor is read
MaxLogs == 2
MaxReceipts == 2
MaxReads == 2

LogLines == {"a", "b"}

RECURSIVE SeqsUpTo(_, _)
SeqsUpTo(S, n) ==
    IF n = 0 THEN {<<>>}
    ELSE LET shorter == SeqsUpTo(S, n - 1) IN
         shorter \cup {Append(s, x) : s \in shorter, x \in S}

InitLogs ==
    transactionResult = [pc |-> "none", received |-> <<>>,
                         transaction_outcome |-> <<>>, receipt_outcome |-> <<>>,
                         logs |-> <<>>, reads |-> 0]

\* models.py:325-336, 52-58: TransactionResult(**res) is constructed from the
\* node's answer; every ReceiptOutcome keeps the list object of its
\* ["outcome"]["logs"].  received is what the node sent for the transaction.
TransactionResultInit(transaction_outcome, receipts_outcome) ==
    /\ transactionResult.pc = "none"
    /\ transactionResult' = [pc |-> "made",
                             received |-> transaction_outcome,
                             transaction_outcome |-> transaction_outcome,
                             receipt_outcome |-> receipts_outcome,
                             logs |-> <<>>,
                             reads |-> 0]
    /\ UNCHANGED <<coreVars, healthVars, creation, hashCalls, settlement, builder>>

\* models.py:340-342: the list logs after the loop has gone over the receipt
\* outcomes from the n-th on
RECURSIVE Extended(_, _, _)
Extended(logs, receipt_outcome, n) ==
    IF n > Len(receipt_outcome) THEN logs
    ELSE Extended(logs \o receipt_outcome[n], receipt_outcome, n + 1)

\* models.py:338-343: the accessor is read.  logs is bound to the list object
\* of transaction_outcome.logs, so list.extend changes that list as well.
Logs ==
    /\ transactionResult.pc = "made"
    /\ transactionResult.reads < MaxReads
    /\ LET logs == Extended(transactionResult.transaction_outcome,
                            transactionResult.receipt_outcome, 1)
       IN  transactionResult' = [transactionResult EXCEPT
                                    !.transaction_outcome = logs,
                                    !.logs = logs,
                                    !.reads = @ + 1]
    /\ UNCHANGED <<coreVars, healthVars, creation, hashCalls, settlement, builder>>

\* a TransactionResult is made and its logs are read
NextLogs ==
    \/ \E t \in SeqsUpTo(LogLines, MaxLogs),
          r \in SeqsUpTo(SeqsUpTo(LogLines, MaxLogs), MaxReceipts) :
            TransactionResultInit(t, r)
    \/ Logs

(* ----------------------------- calc_trx_hash --------------------------- *)

\* number of calc_trx_hash calls in a run
MaxHashCalls == 2

\* The private_key arguments: bytes, a base58 string, or one with "ed25519:"
\* before it.  Bytes are written <<first 32 bytes, the rest>>, each part as the
\* number it spells; the strings <<2, 3>> and <<1, 5>> decode to 119 and 63,
\* the bytes <<7, 7>> and <<3, 15>>.
PrivateKeyArgs ==
    {[type |-> "bytes", prefix |-> FALSE, value |-> <<7, 7>>],
     [type |-> "str", prefix |-> TRUE, value |-> <<2, 3>>],
     [type |-> "str", prefix |-> FALSE, value |-> <<1, 5>>]}

\* transactions.py:90-93: the key's bytes, a string being decoded after
\* "ed25519:" has been removed from it
KeyBytes(private_key) ==
    IF private_key.type = "str"
      THEN <<B58Decode(private_key.value) \div 16, B58Decode(private_key.value) % 16>>
      ELSE private_key.value

\* nacl: signing.SigningKey(seed).verify_key.encode(), the public key of a
\* seed; distinct seeds have distinct public keys
VerifyKey(seed) == (5 * seed + 1) % 16

\* py_near_primitives.Transaction: the fields in the order of their
\* serialization
Transaction(signer_id, public_key, nonce, receiver_id, block_hash, actions) ==
    <<signer_id, public_key, nonce, receiver_id, block_hash, Len(actions)>>

\* py_near_primitives.Transaction.get_hash: the SHA-256 digest of the
\* serialized transaction, taken to be free of collisions: the number the
\* fields spell in radix 16
RECURSIVE GetHash(_)
GetHash(transaction) ==
    IF transaction = <<>> THEN 0
    ELSE GetHash(SubSeq(transaction, 1, Len(transaction) - 1)) * 16
           + transaction[Len(transaction)]

\* base58.b58encode of the bytes spelling n: the digits of n in radix 58
RECURSIVE B58Encode(_)
B58Encode(n) ==
    IF n < 58 THEN <<n>> ELSE Append(B58Encode(n \div 58), n % 58)

\* A plausible slip: the hash is taken before the nonce is set.
HashWithoutNonce(account_id, private_key, receiver_id, nonce, actions, block_hash) ==
    B58Encode(GetHash(Transaction(account_id, VerifyKey(KeyBytes(private_key)[1]),
                                  0, receiver_id, block_hash, actions)))

\* transactions.py:68-106  calc_trx_hash
CalcTrxHash(account_id, private_key, receiver_id, nonce, actions, block_hash) ==
    B58Encode(GetHash(Transaction(account_id, VerifyKey(KeyBytes(private_key)[1]),
                                  nonce, receiver_id, block_hash, actions)))

InitHash == hashCalls = <<>>

\* calc_trx_hash is called, as by sign_and_submit_tx (account.py:185-192);
\* account ids are numbered and a block hash is the bytes it decodes to.
TrxHash(account_id, private_key, receiver_id, nonce, actions, block_hash) ==
    /\ Len(hashCalls) < MaxHashCalls
    /\ hashCalls' = Append(hashCalls,
           [account_id |-> account_id, private_key |-> private_key,
            receiver_id |-> receiver_id, nonce |-> nonce, actions |-> actions,
            block_hash |-> block_hash,
            hash |-> CalcTrxHash(account_id, private_key, receiver_id, nonce,
                                 actions, block_hash)])
    /\ UNCHANGED <<coreVars, healthVars, creation, transactionResult, settlement,
                   builder>>

\* calls of calc_trx_hash
NextTrxHash ==
    \E a \in {1, 2}, k \in PrivateKeyArgs, n \in {8, 9}, h \in {4, 5},
       acts \in {<<>>, <<CreateTransferAction(10)>>} :
        TrxHash(a, k, 3, n, acts, h)

(* --------------- settlement polling of a published intent -------------- *)

\* largest timeout argument tried besides the default
MaxTimeout == 6

\* omni_balance/manager.py:948  timeout: int = 20
DefaultTimeout == 20

\* omni_balance/manager.py:970  await asyncio.sleep(2)
SettleDelay == 2

\* What a get_status request to the relayer ends with: a status, or an
\* exception (no answer, or an answer without result.status).
IntentStatuses == {"PENDING", "SETTLED", "NOT_FOUND_OR_NOT_VALID", "FAILED", "exc"}

\* A plausible slip: one poll for every second of the timeout.
PollEverySecond(timeout) == timeout

\* omni_balance/manager.py:960  range(timeout // 2)
PollsAllowed(timeout) == timeout \div 2

InitSettle ==
    settlement = [pc |-> "idle", timeout |-> 0, polls |-> 0, slept |-> 0,
                  statuses |-> <<>>, returned |-> None]

\* omni_balance/manager.py:947-967, 977: get_tr_hash_from_intent is called, by
\* publish_intents with wait_for_settlement or by the program; the first
\* get_status request is posted, or None returned when no pass is allowed.
GetTrHashFromIntent(timeout) ==
    /\ settlement.pc = "idle"
    /\ settlement' = [settlement EXCEPT
                         !.timeout = timeout,
                         !.pc = IF PollsAllowed(timeout) > 0 THEN "polling" ELSE "returned",
                         !.polls = IF PollsAllowed(timeout) > 0 THEN 1 ELSE 0]
    /\ UNCHANGED <<coreVars, healthVars, creation, transactionResult, hashCalls,
                   builder>>

\* omni_balance/manager.py:964-976: the request ends with st.  PENDING puts the
\* call to sleep, SETTLED returns the hash, any other status returns None, and
\* an exception leaves the call.
StatusAnswers(st) ==
    /\ settlement.pc = "polling"
    /\ settlement' = [settlement EXCEPT
                         !.statuses = Append(@, st),
                         !.pc = CASE st = "PENDING" -> "sleeping"
                                  [] st = "exc" -> "raised"
                                  [] OTHER -> "returned",
                         !.returned = IF st = "SETTLED" THEN "hash" ELSE None]
    /\ UNCHANGED <<coreVars, healthVars, creation, transactionResult, hashCalls,
                   builder>>

\* omni_balance/manager.py:960-967, 970-971, 977: the sleep ends; the next pass
\* posts its request, or the loop is over and None is returned.
SettleSleepDone ==
    /\ settlement.pc = "sleeping"
    /\ settlement' = [settlement EXCEPT
                         !.slept = @ + SettleDelay,
                         !.pc = IF settlement.polls < PollsAllowed(settlement.timeout)
                                  THEN "polling" ELSE "returned",
                         !.polls = IF settlement.polls < PollsAllowed(settlement.timeout)
                                     THEN @ + 1 ELSE @]
    /\ UNCHANGED <<coreVars, healthVars, creation, transactionResult, hashCalls,
                   builder>>

\* one get_tr_hash_from_intent call
NextSettle ==
    \/ \E timeout \in (0 .. MaxTimeout) \cup {DefaultTimeout} : GetTrHashFromIntent(timeout)
    \/ \E st \in IntentStatuses : StatusAnswers(st)
    \/ SettleSleepDone

(* ----------------------------- IntentBuilder --------------------------- *)

\* number of calls of the builder's methods in a run
MaxBuilderCalls == 4

\* omni_balance/manager.py:77-85  IntentTransfer(...), 65  IntentTokenDiff(...)
IntentTransfer(receiver_id) == [intent |-> "transfer", receiver_id |-> receiver_id, diff |-> 0]
IntentTokenDiff(diff) == [intent |-> "token_diff", receiver_id |-> None, diff |-> diff]

\* A string or a bytes value is the sequence of the pieces it is made of; the
\* empty sequence stands for None and for "", which Python's "or" takes alike.
Empty == <<>>

\* hashlib.sha256(data).digest() and base64.b64encode(data): what they give
\* is told apart from what they were given, and from each other
Sha256(data) == <<"sha256">> \o data
B64Encode(data) == <<"b64">> \o data

\* random.getrandbits(256).to_bytes(32, byteorder="big")
RandomBits == {<<"r1">>, <<"r2">>}

\* omni_balance/manager.py:413-420  _generate_nonce(seed), bits being the
\* random bits drawn when seed is None or empty
GenerateNonce(seed, bits) ==
    B64Encode(IF seed # Empty THEN Sha256(seed) ELSE bits)

\* omni_balance/manager.py:270  self.seed or self.nonce
SeedOrNonce(seed, nonce) == IF seed # Empty THEN seed ELSE nonce

\* omni_balance/manager.py:46-54  IntentBuilder.__init__; calls and made keep
\* the methods called and what each sign() gave (with the calls before it)
InitBuilder ==
    builder = [_intents |-> <<>>, _token_diff |-> 0, nonce |-> Empty,
               seed |-> Empty, deadline_seconds |-> 0, calls |-> <<>>,
               made |-> <<>>, raised |-> 0]

\* omni_balance/manager.py:56-66: what one read of the property intents leaves
\* in self._intents, and returns: intents is that very list, and the token
\* diff accumulated by take and give is appended to it.
IntentsRead(_intents, _token_diff) ==
    IF _token_diff # 0 THEN Append(_intents, IntentTokenDiff(_token_diff))
    ELSE _intents

\* a method other than sign is called on the builder
Called(name, after) ==
    /\ Len(builder.calls) < MaxBuilderCalls
    /\ builder' = [after EXCEPT !.calls = Append(@, name)]
    /\ UNCHANGED <<coreVars, healthVars, creation, transactionResult, hashCalls,
                   settlement>>

\* omni_balance/manager.py:68-86  transfer
BuilderTransfer(receiver_id) ==
    Called(<<"transfer", receiver_id>>,
           [builder EXCEPT !._intents = Append(@, IntentTransfer(receiver_id))])

\* omni_balance/manager.py:97-113  take and give of one token
BuilderTake(amount) ==
    Called(<<"take", amount>>, [builder EXCEPT !._token_diff = @ + amount])
BuilderGive(amount) ==
    Called(<<"give", amount>>, [builder EXCEPT !._token_diff = @ - amount])

\* omni_balance/manager.py:246-254, 261-264  with_nonce, with_seed,
\* with_deadline
WithNonce(nonce) ==
    Called(<<"with_nonce", nonce>>, [builder EXCEPT !.nonce = nonce])
WithSeed(seed) ==
    Called(<<"with_seed", seed>>, [builder EXCEPT !.seed = seed])
WithDeadline(deadline_seconds) ==
    Called(<<"with_deadline", deadline_seconds>>,
           [builder EXCEPT !.deadline_seconds = deadline_seconds])

\* omni_balance/manager.py:266-284, 497-525: sign().  The property intents is
\* read at lines 268, 272 and 281; the Quote holds dumps of the intents of
\* the third read and the nonce _generate_nonce gave for the seed or, without
\* a seed, for the nonce of the builder; sign_quote signs the Quote's JSON.
Sign(bits) ==
    LET first == IntentsRead(builder._intents, builder._token_diff)
        second == IntentsRead(first, builder._token_diff)
        third == IntentsRead(second, builder._token_diff)
    IN  IF first = <<>>
          THEN Called(<<"sign", 0>>, [builder EXCEPT !.raised = @ + 1])  \* ValueError
          ELSE Called(<<"sign", 0>>,
                 [builder EXCEPT
                    !._intents = third,
                    !.made = Append(@,
                        [intents |-> third,
                         nonce |-> GenerateNonce(
                                       SeedOrNonce(builder.seed, builder.nonce), bits),
                         deadline_seconds |-> IF builder.deadline_seconds # 0
                                                THEN builder.deadline_seconds ELSE 600,
                         before |-> builder.calls])])

\* an IntentBuilder in use
NextBuilder ==
    \/ \E r \in {"bob", "carol"} : BuilderTransfer(r)
    \/ \E a \in {5} : BuilderTake(a)
    \/ \E a \in {5, 2} : BuilderGive(a)
    \/ \E n \in {<<"n1">>} : WithNonce(n)
    \/ \E sd \in {<<"s1">>} : WithSeed(sd)
    \/ \E d \in {30} : WithDeadline(d)
    \/ \E bits \in RandomBits : Sign(bits)

\* sign_and_submit_tx calls on Account objects with and without signers
NextNoKey ==
    \/ \E t \in SubmitTasks, i \in Instances : Call(t, i)
    \/ \E t \in SubmitTasks, i \in Instances : CallWithoutKey(t, i)
    \/ \E t \in SubmitTasks : StatusHash(t)
    \/ \E t \in SubmitTasks : StatusHeight(t)
    \/ \E t \in SubmitTasks : StatusRaises(t)
    \/ \E t \in SubmitTasks : AccessKeyAnswered(t)
    \/ \E t \in SubmitTasks : AccessKeyResume(t)
    \/ \E t \in SubmitTasks : AccessKeyRaises(t)
    \/ \E t \in SubmitTasks : SendReturns(t)
    \/ \E t \in SubmitTasks : SendRaises(t)

\* sign_and_submit_tx calls while time passes
NextHash ==
    \/ \E t \in SubmitTasks, i \in Instances : Call(t, i)
    \/ \E t \in SubmitTasks : StatusHash(t)
    \/ \E t \in SubmitTasks : StatusHeight(t)
    \/ \E t \in SubmitTasks : StatusRaises(t)
    \/ \E t \in SubmitTasks : AccessKeyAnswered(t)
    \/ \E t \in SubmitTasks : AccessKeyResume(t)
    \/ \E t \in SubmitTasks : AccessKeyRaises(t)
    \/ \E t \in SubmitTasks : SendReturns(t)
    \/ \E t \in SubmitTasks : SendRaises(t)
    \/ Elapse

Init == InitAccount /\ InitRpc /\ InitErr /\ InitSingle /\ InitSubmit /\ InitHealth
        /\ InitCreate /\ InitStake /\ InitDelegate /\ InitLogs /\ InitHash
        /\ InitSettle /\ InitBuilder

Spec == Init /\ [][Next]_vars

SpecClock == Init /\ [][Next \/ Tick]_vars

SpecRpc == Init /\ [][NextRpc]_vars

SpecErr == Init /\ [][NextErr]_vars

SpecSingle == Init /\ [][NextSingle]_vars

SpecSubmit == Init /\ [][NextSubmit]_vars

SpecHash == Init /\ [][NextHash]_vars

SpecHealth == Init /\ [][NextHealth]_vars

SpecCreate == Init /\ [][NextCreate]_vars

SpecLogs == Init /\ [][NextLogs]_vars

SpecTrxHash == Init /\ [][NextTrxHash]_vars

SpecSettle == Init /\ [][NextSettle]_vars

SpecBuilder == Init /\ [][NextBuilder]_vars

SpecNoKey == Init /\ [][NextNoKey]_vars

\* the calls of SpecNoKey, the block hash going stale between them
SpecRefresh == Init /\ [][NextNoKey \/ Tick]_vars

SpecStake == Init /\ [][NextStake]_vars

SpecDelegate == Init /\ [][NextDelegate]_vars

(* ------------------------------ claims -------------------------------- *)

Reserved(t) == txNonce[t] # 0
Ended(t) == pc[t] \in {"returned", "raised"}
ReservedOn(i, k) == {t \in Tasks : Reserved(t) /\ self[t] = i /\ pk[t] = k}
OnlyInstance(i) == \A t \in Tasks : self[t] \in {0, i}

\* The nonce the next submission of instance i signed with key k is given.
NextNonce(i, k) ==
    IF accessKeyNonce[k] = 0 THEN chainNonce[<<AccountId(i), k>>] + 1
                             ELSE accessKeyNonce[k] + 1

\* The keys the next n check-outs from queue q are given (lines 176-177).
RECURSIVE NextKeys(_, _)
NextKeys(q, n) ==
    IF n = 0 THEN <<>>
    ELSE <<CheckedOut(q)>> \o NextKeys(PutBack(AfterGet(q), CheckedOut(q)), n - 1)

\* No sign_and_submit_tx call is in flight on instance i.
Idle(i) == \A t \in Tasks : self[t] = i => Ended(t)

\* C1: when all calls are made on one Account, starting from an unseeded cache
\* with on-chain nonce k, the nonces signed with one key by the N calls that
\* have reserved one are exactly k+1 .. k+N, each used once, whatever the
\* interleaving and whichever submissions failed.
C1_NoncesExactlyOnce ==
    \A i \in Instances, k \in PrivateKeys :
        OnlyInstance(i) =>
            /\ \A t, u \in ReservedOn(i, k) : t # u => txNonce[t] # txNonce[u]
            /\ {txNonce[t] : t \in ReservedOn(i, k)} =
                   (ChainNonce0[<<AccountId(i), k>>] + 1) ..
                   (ChainNonce0[<<AccountId(i), k>>] + Cardinality(ReservedOn(i, k)))

\* C2: once a submission has raised in its broadcast step, every nonce reserved
\* afterwards on the same Account and key is strictly greater than the nonce of
\* the failed submission (the failure does not roll the cached nonce back).
C2_NonceNotReusedAfterFailure ==
    [][\A t, u \in Tasks :
          ( /\ pc[t] = "raised" /\ Reserved(t)
            /\ ~Reserved(u) /\ txNonce'[u] # 0
            /\ self'[u] = self[t] /\ pk'[u] = pk[t] )
          => txNonce'[u] > txNonce[t]]_vars

\* C3: a step of a sign_and_submit_tx call on one Account leaves unchanged the
\* nonce that a different Account (another account_id) will use next for each
\* of its keys: the cache is per (account, key).
C3_CachePerAccountAndKey ==
    [][\A t \in Tasks :
          pc'[t] # pc[t] =>
              \A j \in Instances \ {self'[t]} :
                  \A k \in Range(Signers(j)) :
                      NextNonce(j, k)' = NextNonce(j, k)]_vars

\* C4: at most one call at a time is inside the reservation step of a key
\* (from the cache lookup, through the first-use access-key fetch, to the
\* increment).
C4_ReservationMutex ==
    \A t, u \in Tasks :
        ( /\ t # u
          /\ pc[t] = "access_key" /\ pc[u] = "access_key"
          /\ self[t] = self[u] )
        => pk[t] # pk[u]

\* C5: the access-key query of a key is answered to at most one call of an
\* Account: the key is seeded once and never queried again.
C5_QueryOncePerKey ==
    \A i \in Instances, k \in PrivateKeys :
        Cardinality({t \in Tasks : /\ self[t] = i /\ pk[t] = k
                                   /\ accessKey[t] # NoResponse}) <= 1

\* C6: while a submission signed with key K is suspended in the broadcast
\* step, K is in the free-key queue of its Account, and a call of that Account
\* that is about to check a key out is not blocked: submissions are not
\* serialized across the broadcast.
C6_SendDoesNotBlockReservation ==
    \A t \in Tasks :
        pc[t] = "send" =>
            /\ pk[t] \in Range(freeSigners[self[t]])
            /\ \A u \in Tasks :
                   (pc[u] = "status2" /\ self[u] = self[t])
                   => ENABLED StatusHeight(u)

\* C6 witness: with one configured key, two submissions signed with it are in
\* the broadcast step at the same time.
C6_TwoInBroadcast ==
    \E t, u \in Tasks :
        /\ t # u
        /\ pc[t] = "send" /\ pc[u] = "send"
        /\ self[t] = 2 /\ self[u] = 2
        /\ pk[t] = pk[u]

\* C7: with K >= 2 configured keys and no call in flight, the next K calls are
\* given K distinct keys.
C7_DistinctKeysFromIdlePool ==
    \A i \in Instances :
        (Idle(i) /\ Len(Signers(i)) >= 2) =>
            Cardinality(Range(NextKeys(freeSigners[i], Len(Signers(i)))))
                = Len(Signers(i))

\* C8: when a call has ended, by returning or by raising, the key it checked
\* out is in the free-key queue of its Account; no configured key is ever
\* missing from the queue, so a check-out never blocks.
C8_KeyBackInPool ==
    /\ \A t \in Tasks :
           (Ended(t) /\ pk[t] # NoKey) => pk[t] \in Range(freeSigners[self[t]])
    /\ \A i \in Instances : Range(Signers(i)) \subseteq Range(freeSigners[i])

\* C8 witness: a submission raised in the broadcast step, and another call of
\* the same Account has checked out the same key and reserved a later nonce.
C8_KeyReusedAfterFailure ==
    \E t, u \in Tasks :
        /\ pc[t] = "raised" /\ Reserved(t)
        /\ pc[u] = "send"
        /\ self[u] = self[t] /\ pk[u] = pk[t]
        /\ txNonce[u] > txNonce[t]

\* C9: with threshold t >= 2, a body is returned only if at least t endpoint
\* requests ended with that body, and the call does not go on waiting once some
\* body has been given by t endpoints.
C9_ThresholdAgreement ==
    threshold >= 2 =>
        /\ rpcPc = "returned" => delivered[result] >= threshold
        /\ rpcPc = "waiting" => \A b \in Bodies : delivered[b] < threshold

\* C9 witness: 5 endpoints, 3 answer "A" and 2 answer "B", threshold 3: the
\* majority body is returned.
C9_MajorityReturned ==
    /\ rpcPc = "returned" /\ threshold = 3 /\ result = "A"
    /\ delivered["A"] = 3 /\ delivered["B"] = 2

\* C10: a threshold call raises RpcEmptyResponse only when no request is
\* pending any more and no body was given by t endpoints; a call that ended
\* without such a body has raised; a call that returned is backed by t
\* endpoints.
C10_ThresholdNotReached ==
    threshold >= 1 =>
        /\ rpcPc = "raised" =>
               /\ pending = {}
               /\ Completed = Cardinality(AvailableRpcs)
               /\ \A b \in Bodies : delivered[b] < threshold
        /\ (rpcPc \in {"returned", "raised"}
              /\ \A b \in Bodies : delivered[b] < threshold)
           => rpcPc = "raised"
        /\ rpcPc = "returned" => delivered[result] >= threshold

\* C10 witness: 5 endpoints, 3 answer "A" and 2 answer "B", threshold 4: the
\* call raises after all five have answered.
C10_SplitRaises ==
    /\ rpcPc = "raised" /\ threshold = 4
    /\ delivered["A"] = 3 /\ delivered["B"] = 2
    /\ Completed = 5

Success(o) == o # "exc" /\ ~HasError(o)

\* C11: in single-endpoint mode, once an endpoint has answered with an error
\* envelope, no further endpoint is asked: that answer is the last request of
\* the call, and json_rpc has raised the typed error of the envelope
\* (UnknownAccount for cause UNKNOWN_ACCOUNT).
C11_ErrorRaisedAtOnce ==
    \A n \in 1 .. Len(answers) :
        HasError(answers[n]) =>
            /\ Len(contacted) = n
            /\ jsonPc = "raised"
            /\ error = "UnknownAccount"

\* C12: a single-endpoint call asks the available endpoints in list order, one
\* request at a time; after an endpoint that raised it goes on to the next
\* one; a body without error is returned as soon as it arrives and no endpoint
\* is asked after it; a call that returned anything else has asked them all.
C12_SingleEndpointOrder ==
    jsonPc # "idle" =>
        /\ contacted = SubSeq(AvailableRpcList, 1, Len(contacted))
        /\ Len(contacted) = Len(answers) + (IF rpcPc = "asking" THEN 1 ELSE 0)
        /\ \A n \in 1 .. Len(answers) :
               /\ Success(answers[n]) =>
                      /\ n = Len(contacted)
                      /\ rpcPc = "returned" /\ result = answers[n]
                      /\ jsonPc = "returned"
               /\ (answers[n] = "exc" /\ n < Len(AvailableRpcList)) =>
                      Len(contacted) > n
        /\ (rpcPc = "returned" /\ \A n \in 1 .. Len(answers) : ~Success(answers[n]))
              => Len(answers) = Len(AvailableRpcList)

\* C12 witness: the first endpoint is unreachable, the second answers with an
\* error, the third with a result, which is returned; the other two endpoints
\* are not asked.
C12_ThirdEndpointAnswers ==
    /\ answers = <<"exc", "E", "A">>
    /\ contacted = <<1, 2, 3>>
    /\ rpcPc = "returned" /\ result = "A" /\ jsonPc = "returned"

\* C13: a broadcast call (no threshold) starts one request per available
\* endpoint at once; while it waits, no request has ended with a body without
\* error; it returns such a body as soon as one is read; so it gives an error
\* body or nothing only when every request has ended and none gave a body
\* without error.
C13_BroadcastFirstSuccess ==
    (broadcast /\ threshold = 0) =>
        /\ rpcPc = "waiting" =>
               /\ Cardinality(pending) + Completed = Cardinality(AvailableRpcs)
               /\ delivered["A"] = 0 /\ delivered["B"] = 0
        /\ rpcPc = "returned" =>
               \/ result \in {"A", "B"} /\ delivered[result] >= 1
               \/ /\ result \in {"E", None}
                  /\ delivered["A"] = 0 /\ delivered["B"] = 0
                  /\ pending = {} /\ Completed = Cardinality(AvailableRpcs)
        /\ rpcPc # "raised"

\* C13 witness: of five endpoints two raised, two gave an error body and the
\* last to complete gave a result, which is returned.
C13_LastEndpointWins ==
    /\ broadcast /\ threshold = 0
    /\ rpcPc = "returned" /\ result = "A"
    /\ delivered["exc"] = 2 /\ delivered["E"] = 2 /\ delivered["A"] = 1
    /\ pending = {}

\* An ActionError key of the body holds what the node sends with it, the map
\* {"index": .., "kind": {..}}, and that map occurs nowhere else.
WellFormed(body) ==
    /\ \A n \in 1 .. Len(body.chain) :
           body.chain[n] = "ActionError" =>
               n = Len(body.chain) /\ body.leaf \in ActionLeaves
    /\ body.leaf \in ActionLeaves =>
           body.chain # <<>> /\ body.chain[Len(body.chain)] = "ActionError"

\* The innermost error code of a chain of maps keyed by error codes, and the
\* argument fields given with it.
InnermostCode(body) ==
    IF body.leaf \in ErrorCodes THEN body.leaf ELSE body.chain[Len(body.chain)]
ArgFields(body) == TopKeys(Body(<<>>, body.leaf))

\* C14: for an error envelope whose data is a chain of single-key maps, each
\* keyed by a recognized error code, get_error_from_response returns (it does
\* not raise) the error of the class of the innermost code, and the argument
\* fields of that code are attributes of it.
C14_InnermostTypedError ==
    ( /\ content.fn = "get_error_from_response" /\ content.hasError
      /\ content.data.chain # <<>>
      /\ \A n \in 1 .. Len(content.data.chain) : content.data.chain[n] \in ErrorCodes
      /\ WellFormed(content.data)
      /\ content.data.leaf \in ActionLeaves => KindOf(content.data.leaf) \in ActionErrorKinds )
    => /\ classified.raised = None
       /\ classified.type = ErrorCodeToException(InnermostCode(content.data))
       /\ classified.attrs = ArgFields(content.data)

\* C15: when the cause name of an envelope, a key of its nested maps, the kind
\* of its ActionError, or the error type given to parse_error is not a
\* recognized code, the classification does not end in a lookup error or
\* another crash.
C15_ClassificationTotal ==
    ( \/ content.fn = "parse_error" /\ content.name \notin ErrorTypes
      \/ /\ content.fn = "get_error_from_response" /\ content.hasError
         /\ WellFormed(content.data)
         /\ \/ content.name \notin ProviderCodes
            \/ \E n \in 1 .. Len(content.data.chain) :
                   content.data.chain[n] \notin ErrorCodes
            \/ /\ content.data.leaf \in ActionLeaves
               /\ KindOf(content.data.leaf) \notin ActionErrorKinds )
    => classified.raised \notin {"KeyError", "JSONDecodeError"}

\* The get_tx requests a call has made.
Polls(t) == CountOf(requests[t], "tx")

\* C16: a wait-for-execution submission whose broadcast_tx_commit request
\* ended with RPCTimeoutError goes on to poll get_tx; it is polling, or it
\* returned the result a poll gave, or it raised RPCTimeoutError after as many
\* polls as there are attempts, the last of which failed too.  It gives no
\* other value and raises no other exception.
C16_TimeoutFallsBackToPolling ==
    \A t \in Tasks :
        (~included[t] /\ sent[t] = "RPCTimeoutError") =>
            /\ requests[t][1] = "broadcast_tx_commit"
            /\ \A n \in 2 .. Len(requests[t]) : requests[t][n] = "tx"
            /\ \/ /\ subPc[t] \in {"sleep", "poll"}
                  /\ outcome[t] = None /\ pc[t] = "send"
               \/ /\ subPc[t] = "done" /\ pc[t] = "returned"
                  /\ outcome[t] = "result" /\ polled[t] = "ok"
               \/ /\ subPc[t] = "done" /\ pc[t] = "raised"
                  /\ outcome[t] = "RPCTimeoutError"
                  /\ polled[t] \in PollOutcomes \ {"ok"}
                  /\ Polls(t) = Attempts

\* C16 witness: the broadcast timed out, six polls failed, and the call raised
\* RPCTimeoutError.
C16_PollsExhausted ==
    \E t \in Tasks :
        /\ ~included[t] /\ sent[t] = "RPCTimeoutError"
        /\ Polls(t) = 6 /\ polled[t] = "InternalError"
        /\ outcome[t] = "RPCTimeoutError" /\ pc[t] = "raised"

\* C17: wait_for_trx makes at most `attempts` get_tx requests, each after one
\* more sleep of the fixed delay; a poll that raised is followed by the next
\* pass; the function ends by returning the result of the poll that gave one,
\* or, after the last pass, by raising RPCTimeoutError.
C17_PollingBounded ==
    \A t \in Tasks :
        /\ attempt[t] <= Attempts
        /\ Polls(t) <= Attempts
        /\ subPc[t] = "sleep" =>
               /\ Polls(t) = attempt[t] - 1
               /\ slept[t] = PollDelay * (attempt[t] - 1)
               /\ attempt[t] > 1 => polled[t] \in PollOutcomes \ {"ok"}
        /\ subPc[t] = "poll" =>
               /\ Polls(t) = attempt[t]
               /\ slept[t] = PollDelay * attempt[t]
        /\ (subPc[t] = "done" /\ attempt[t] >= 1) =>
               /\ Polls(t) = attempt[t]
               /\ slept[t] = PollDelay * attempt[t]
               /\ \/ outcome[t] = "result" /\ polled[t] = "ok"
                  \/ /\ outcome[t] = "RPCTimeoutError"
                     /\ attempt[t] = Attempts
                     /\ polled[t] \in PollOutcomes \ {"ok"}

\* C17 witness: five polls raised, the fifth with a timeout, and the sixth
\* request is made after thirty seconds of sleep.
C17_SixthPoll ==
    \E t \in Tasks :
        /\ subPc[t] = "poll" /\ Polls(t) = 6
        /\ polled[t] = "RPCTimeoutError" /\ slept[t] = 30

\* C18: a call makes at most one broadcast request (send_tx or
\* broadcast_tx_commit), as its first request; every later request is a get_tx
\* query; and the nonce signed into the transaction never changes.
C18_SubmittedOnce ==
    [][\A t \in Tasks :
          /\ CountOf(requests'[t], "send_tx")
                + CountOf(requests'[t], "broadcast_tx_commit") <= 1
          /\ \A n \in 2 .. Len(requests'[t]) : requests'[t][n] = "tx"
          /\ Len(requests[t]) <= Len(requests'[t])
          /\ txNonce[t] # 0 => txNonce'[t] = txNonce[t]]_vars

\* C18 witness: after the timeout of broadcast_tx_commit the call has made two
\* get_tx requests and nothing else.
C18_QueriesAfterTimeout ==
    \E t \in Tasks :
        /\ sent[t] = "RPCTimeoutError"
        /\ requests[t] = <<"broadcast_tx_commit", "tx", "tx">>

\* C19: with included set, the step in which the send_tx request ends with
\* RPCTimeoutError makes the call return the transaction hash, and leaves the
\* nonce cache and the nonce of the transaction as they are.
C19_IncludedTimeoutNotFatal ==
    [][\A t \in Tasks :
          (subPc[t] = "broadcast" /\ included[t] /\ sent'[t] = "RPCTimeoutError")
          => /\ outcome'[t] = "hash" /\ pc'[t] = "returned"
             /\ accessKeyNonce' = accessKeyNonce
             /\ txNonce' = txNonce]_vars

\* C19 witness: an included submission timed out and returned the hash; the
\* cached nonce of its key is not below the nonce it signed.
C19_HashAfterTimeout ==
    \E t \in Tasks :
        /\ included[t] /\ sent[t] = "RPCTimeoutError"
        /\ outcome[t] = "hash" /\ pc[t] = "returned"
        /\ accessKeyNonce[pk[t]] >= txNonce[t]

\* C20: a call whose broadcast request ended with a protocol error
\* (InvalidNonce, InvalidTransactionError) has raised that error, whatever the
\* mode; it has not returned.
C20_ProtocolErrorsPropagate ==
    \A t \in Tasks :
        (subPc[t] = "done" /\ sent[t] \in {"InvalidNonce", "InvalidTransactionError"})
        => pc[t] = "raised" /\ outcome[t] = sent[t]

C22_FailureRaisesTypedError ==
    \A t \in Tasks :
        (~included[t] /\ sent[t] = "Failure" /\ subPc[t] = "done") =>
            /\ pc[t] = "raised"
            /\ outcome[t] \in {ErrorTypeToException(k) : k \in ErrorTypes}

\* C23: every transaction a call has built references a block hash that was
\* fetched no more than 50 time units before the freshness check of that call
\* (a block hash is the clock's value at the moment it was fetched).
C23_HashFreshAtCheck ==
    \A t \in Tasks :
        txNonce[t] # 0 => checkedAt[t] - txBlockHash[t] <= FreshWindow

\* C24: the available list is always a sub-list of the configured list, and
\* when a health check has ended it holds exactly the configured endpoints, in
\* configured order, whose status request of that check was answered with
\* status 200 and without a sync lag of more than 60 s; whether an endpoint was
\* in the list before the check plays no part.
C24_AvailableAfterCheck ==
    /\ Range(availableRpcs) \subseteq Range(RpcAddressList)
    /\ (check.pc = "idle" /\ check.done > 0) =>
           availableRpcs =
               SelectSeq(RpcAddressList,
                         LAMBDA a : /\ check.reports[a].reached
                                    /\ check.reports[a].status = 200
                                    /\ ~(/\ check.reports[a].syncing
                                         /\ check.reports[a].diff > 60))

\* C24 witness: a second check has ended; it admitted an endpoint that the
\* first check had excluded, admitted one that is syncing 60 s behind, and
\* excluded an endpoint that is syncing 61 s behind.
C24_Readmitted ==
    /\ check.pc = "idle" /\ check.done = 2
    /\ \E a, b, c \in Range(RpcAddressList) :
        /\ a \notin Range(check.before) /\ a \in Range(availableRpcs)
        /\ check.reports[b].syncing /\ check.reports[b].diff = 60
        /\ b \in Range(availableRpcs)
        /\ check.reports[c].syncing /\ check.reports[c].diff = 61
        /\ c \notin Range(availableRpcs)

\* C25: the endpoints a call_rpc_request call contacts are those of the
\* available list as it was when the call started, in that order, whatever
\* health checks have ended since: all of them with broadcast or threshold, a
\* prefix of the list in single-endpoint mode.
C25_RequestKeepsSnapshot ==
    flight.pc # "idle" =>
        IF flight.mode = "broadcast"
          THEN flight.contacted = flight.atStart
          ELSE /\ Len(flight.contacted) <= Len(flight.atStart)
               /\ flight.contacted = SubSeq(flight.atStart, 1, Len(flight.contacted))

\* C25 witness: a single-endpoint call went on to an endpoint after a health
\* check that ended during the call had removed that endpoint from the list.
C25_CheckedMeanwhile ==
    /\ flight.mode = "single"
    /\ flight.contactedAt > flight.startedAt
    /\ flight.contacted # <<>>
    /\ flight.contacted[Len(flight.contacted)] \notin Range(availableRpcs)

\* C26: a create_account call gives sign_and_submit_tx the new account id as
\* receiver and the list CreateAccount, AddKey (full access, the public key
\* given, whatever its form), Transfer (the initial balance), in that order;
\* the call makes no more than one broadcast request, exactly one once the
\* transaction is signed and sent, and the transaction's nonce is the one
\* nonce taken from the key's cache (the key's nonce on chain plus one).
C26_OneCreationTransaction ==
    creation.pc = "called" =>
        /\ creation.receiver_id = creation.account_id
        /\ creation.actions =
               <<[action |-> "CreateAccount"],
                 [action |-> "AddKey",
                  public_key |-> IF creation.public_key.value \in {<<1, 5>>, <<63>>}
                                   THEN 63 ELSE 7,
                  nonce |-> 0,
                  permission |-> "FullAccess"],
                 [action |-> "Transfer", deposit |-> creation.initial_balance]>>
        /\ Len(requests[1]) - Polls(1) = IF subPc[1] = "idle" THEN 0 ELSE 1
        /\ \A t \in Tasks : t # 1 => requests[t] = <<>> /\ txNonce[t] = 0
        /\ txNonce[1] # 0 =>
               /\ txNonce[1] = ChainNonce0[<<AccountId(self[1]), pk[1]>>] + 1
               /\ accessKeyNonce[pk[1]] = txNonce[1]
               /\ \A k \in PrivateKeys \ {pk[1]} : accessKeyNonce[k] = 0

\* C26 witness: create_account, given the key as a string with "ed25519:",
\* has returned after its transaction was sent and then polled for.
C26_AccountCreated ==
    /\ creation.pc = "called"
    /\ creation.public_key.type = "str" /\ creation.public_key.prefix
    /\ creation.initial_balance = 10
    /\ outcome[1] = "result"
    /\ Polls(1) > 0

\* C27: whenever the logs accessor of a TransactionResult has been read, what
\* it returned is the transaction-level logs the node sent followed by the
\* logs of every receipt outcome in receipt order, each line once.
C27_LogsConcatenatedOnce ==
    transactionResult.reads > 0 =>
        transactionResult.logs =
            Extended(transactionResult.received, transactionResult.receipt_outcome, 1)

C29_SettlementPolling ==
    LET s == settlement
        n == Len(s.statuses)
    IN  /\ s.polls <= s.timeout \div 2
        /\ s.polls = IF s.pc = "polling" THEN n + 1 ELSE n
        /\ \A k \in 1 .. s.polls - 1 : s.statuses[k] = "PENDING"
        /\ s.slept = 2 * Cardinality({k \in 1 .. n : s.statuses[k] = "PENDING"
                                                     /\ (k < n \/ s.pc # "sleeping")})
        /\ s.pc = "returned" =>
               /\ s.returned = "hash" <=> (n > 0 /\ s.statuses[n] = "SETTLED")
               /\ s.returned \in {"hash", None}
               /\ (n = 0 \/ s.statuses[n] = "PENDING") => s.polls = s.timeout \div 2
        /\ s.pc = "raised" => s.statuses[n] = "exc"

\* C29 witness: with the default timeout, the tenth poll reported SETTLED after
\* nine that reported PENDING, and the hash was returned.
C29_SettledOnLastPoll ==
    /\ settlement.pc = "returned"
    /\ settlement.timeout = 20
    /\ settlement.polls = 10
    /\ settlement.returned = "hash"

\* The intents the calls made on a builder have added to it: the transfers in
\* the order of the calls, then, when take and give leave a difference, one
\* token_diff intent holding it.
RECURSIVE TransfersAdded(_)
TransfersAdded(calls) ==
    IF calls = <<>> THEN <<>>
    ELSE LET c == calls[Len(calls)]
             before == TransfersAdded(SubSeq(calls, 1, Len(calls) - 1))
         IN  IF c[1] = "transfer" THEN Append(before, IntentTransfer(c[2])) ELSE before

RECURSIVE DiffAdded(_)
DiffAdded(calls) ==
    IF calls = <<>> THEN 0
    ELSE LET c == calls[Len(calls)]
             before == DiffAdded(SubSeq(calls, 1, Len(calls) - 1))
         IN  CASE c[1] = "take" -> before + c[2]
               [] c[1] = "give" -> before - c[2]
               [] OTHER -> before

IntentsAdded(calls) ==
    IF DiffAdded(calls) = 0 THEN TransfersAdded(calls)
    ELSE Append(TransfersAdded(calls), IntentTokenDiff(DiffAdded(calls)))

\* C30: every Commitment sign() has returned lists exactly the intents that
\* had been added to the builder when it was signed, in the order they were
\* added, whatever was called on the builder afterwards; and a sign() call on
\* a builder without intents raised ValueError and returned no Commitment.
C30_SignFreezesContent ==
    /\ \A i \in DOMAIN builder.made :
           builder.made[i].intents = IntentsAdded(builder.made[i].before)
    /\ \A k \in DOMAIN builder.calls :
           (builder.calls[k][1] = "sign"
              /\ IntentsAdded(SubSeq(builder.calls, 1, k - 1)) = <<>>) =>
               /\ builder.raised > 0
               /\ \A i \in DOMAIN builder.made :
                      builder.made[i].before # SubSeq(builder.calls, 1, k - 1)

C32_StakeAmountAndKey ==
    staking.pc # "idle" =>
        /\ staking.pc = "called"
        /\ staking.receiver_id = AccountId(staking.account)
        /\ staking.actions =
               <<[action |-> "Stake",
                  stake |-> staking.amount,
                  public_key |-> B58Decode(staking.public_key.value)]>>

\* The argument of the last call of the method name among calls (Empty: none).
RECURSIVE LastGiven(_, _)
LastGiven(calls, name) ==
    IF calls = <<>> THEN Empty
    ELSE IF calls[Len(calls)][1] = name THEN calls[Len(calls)][2]
    ELSE LastGiven(SubSeq(calls, 1, Len(calls) - 1), name)

\* C33: every Commitment signed after with_nonce(n), with no seed set on the
\* builder, holds a Quote whose nonce is n.
C33_NonceAsGiven ==
    \A i \in DOMAIN builder.made :
        LET m == builder.made[i] IN
        (LastGiven(m.before, "with_nonce") # Empty
           /\ LastGiven(m.before, "with_seed") = Empty)
        => m.nonce = LastGiven(m.before, "with_nonce")

\* C34: whenever no sign_and_submit_tx call is in flight on an Account, its
\* free-key queue holds each configured key exactly once: it is as long as the
\* list of configured keys and holds the same keys.
C34_PoolConserved ==
    \A i \in Instances :
        Idle(i) =>
            /\ Len(freeSigners[i]) = Len(Signers(i))
            /\ Range(freeSigners[i]) = Range(Signers(i))

\* C35: the hash a sign_and_submit_tx call holds (and returns, polls with or
\* attaches to the error) was computed from the key, the nonce and the block
\* hash that were signed into the transaction the call broadcasts, whatever
\* other calls have reserved or refreshed since.
C35_HashOfBroadcastTransaction ==
    \A t \in Tasks :
        Reserved(t) =>
            trxHash[t] = [signer |-> pk[t], nonce |-> txNonce[t],
                          block_hash |-> txBlockHash[t]]

\* C35 witness: a call is in its broadcast, and since it signed, another call
\* of the same Account has refreshed the block hash and reserved a later nonce
\* of the same key.
C35_OvertakenInBroadcast ==
    \E t, u \in Tasks :
        /\ pc[t] = "send" /\ Reserved(u)
        /\ self[u] = self[t] /\ pk[u] = pk[t]
        /\ txNonce[u] > txNonce[t]
        /\ txBlockHash[u] # txBlockHash[t]
        /\ latestBlockHash[self[t]] # trxHash[t].block_hash
        /\ accessKeyNonce[pk[t]] # trxHash[t].nonce

\* C36: a read of the logs accessor leaves the logs of the transaction outcome
\* and of every receipt outcome as they were, and a read after the first
\* returns a list equal to what the read before it returned.
C36_LogsReadIsPure ==
    [][transactionResult'.reads = transactionResult.reads + 1 =>
          /\ transactionResult'.transaction_outcome
                 = transactionResult.transaction_outcome
          /\ transactionResult'.receipt_outcome = transactionResult.receipt_outcome
          /\ transactionResult.reads > 0 =>
                 transactionResult'.logs = transactionResult.logs]_vars

\* C37: every Commitment sign() has returned holds the explicitly added
\* intents in the order they were added, followed by exactly one token_diff
\* intent with the net amount when take and give have left a net amount other
\* than zero (and by none otherwise); and a sign() call leaves the builder's
\* stored intent list as it was.
C37_OneTokenDiffIntent ==
    [][\A i \in DOMAIN builder'.made :
          i \notin DOMAIN builder.made =>
              /\ builder'.made[i].intents = IntentsAdded(builder'.made[i].before)
              /\ builder'._intents = builder._intents]_vars

\* C38: the nonce of the delegate action create_delegate_action returned for
\* key K of an Account differs from every nonce a sign_and_submit_tx call of
\* that Account has reserved for K, before or after, landed or not.
C38_DelegateNonceUnused ==
    delegate.pc = "returned" =>
        \A t \in Tasks :
            (Reserved(t) /\ self[t] = delegate.account /\ pk[t] = delegate.key)
            => txNonce[t] # delegate.nonce

\* C39: a sign_and_submit_tx call that raises in its block-hash refresh or in
\* its access-key query has reserved no nonce, and the raising step leaves the
\* nonce cache and the free-key queues as they were; the check-out before the
\* query leaves every key in the queue as often as before; a call that checks
\* out an unseeded key asks the chain, leaving the cache alone, and then signs
\* with the nonce the chain answered plus one.
C39_FailureConsumesNoNonce ==
    [][\A t \in Tasks :
          /\ (pc[t] \in {"status1", "status2", "access_key"} /\ pc'[t] = "raised") =>
                 /\ UNCHANGED <<accessKeyNonce, freeSigners>>
                 /\ txNonce'[t] = 0
          /\ (pk[t] = NoKey /\ pk'[t] # NoKey) =>
                 /\ \A k \in PrivateKeys :
                        CountOf(freeSigners'[self'[t]], k)
                            = CountOf(freeSigners[self'[t]], k)
                 /\ accessKeyNonce[pk'[t]] = 0 =>
                        pc'[t] = "access_key" /\ UNCHANGED accessKeyNonce
          /\ (accessKey[t] = NoResponse /\ accessKey'[t] # NoResponse) =>
                 accessKey'[t] = chainNonce[<<AccountId(self[t]), pk[t]>>]
          /\ (pc[t] = "access_key" /\ pc'[t] = "send") =>
                 txNonce'[t] = accessKey[t] + 1]_vars

\* C39 witness: the access-key query of a call raised, and a call made later
\* on the same Account checked out the same key, found it unseeded and
\* reserved the key's on-chain nonce plus one.
C39_SeededAfterFailure ==
    \E t, u \in Tasks :
        /\ pc[t] = "raised" /\ pk[t] # NoKey /\ txNonce[t] = 0
        /\ accessKey[t] = NoResponse
        /\ self[u] = self[t] /\ pk[u] = pk[t]
        /\ checkedAt[u] > checkedAt[t]
        /\ accessKey[u] # NoResponse
        /\ txNonce[u] = ChainNonce0[<<AccountId(self[u]), pk[u]>>] + 1

====
